---- MODULE Spec2Model ----
(***************************************************************************)
(* The mock-mode session engine of openai-realtimeapi-mock: the handler    *)
(* handleMockWebSocket (welcome events, read loop, one-shot trigger), the  *)
(* replay engine runReplay and the scenario engine runScenario with its    *)
(* event handlers and the two streaming tasks of a message event.          *)
(*                                                                         *)
(* One connection is modelled.  The goroutines are the handler (the read   *)
(* loop), the background run started by the trigger, and the audio and     *)
(* transcript tasks of a message event; every step of a goroutine between  *)
(* two socket writes is one action, and a socket write is atomic (the      *)
(* mutex of SafeWebSocket.WriteMessage).  `wire` is the history of what    *)
(* the goroutines did to the connection and to the clock: every write      *)
(* attempted, with its outcome, and every time.Sleep taken.                *)
(***************************************************************************)
EXTENDS Integers, Sequences, FiniteSets, TLC

\* ------------------------------------------------------------------ bounds

\* Inbound frames the handler reads in one session.
MaxFrames == 3
\* Lines of a recording file.
MaxLines == 3
\* Events of a scenario.
MaxEvents == 2
\* Characters of a scripted text.
MaxTextLen == 4
\* Bytes of a function call's argument string.
MaxArgLen == 21
\* Calls of SafeWebSocket.WriteMessage made by the goroutines of SpecMutex.
MaxWrites == 3
\* The instant T of the first recorded event, in milliseconds.
RecT == 1000

\* ------------------------------------------------------------ basic helpers

Max(a, b) == IF a >= b THEN a ELSE b

\* All sequences over S of length at most n.
SeqsUpTo(S, n) == UNION { [1..k -> S] : k \in 0..n }

\* --------------------------------------------------------- inbound frames

\* A frame ReadMessage returns: its message type, whether its payload is a
\* JSON object that unmarshals into BaseEvent, and the value of its "type".
BinaryFrame == [mt |-> "binary", json |-> FALSE, type |-> ""]
NonJSONText == [mt |-> "text", json |-> FALSE, type |-> ""]
TextFrame(t) == [mt |-> "text", json |-> TRUE, type |-> t]

InTypes == {"input_audio_buffer.append", "response.create", "session.update"}

InFrames == {BinaryFrame, NonJSONText} \cup { TextFrame(t) : t \in InTypes }

NoFrame == [mt |-> "none", json |-> FALSE, type |-> ""]

\* json.Unmarshal(message, &base)
UnmarshalBase(f) ==
    IF f.json THEN [err |-> FALSE, Type |-> f.type]
              ELSE [err |-> TRUE, Type |-> ""]

\* The frames on which the read loop reaches its trigger code.  A variant
\* that takes every JSON text frame for a trigger.
IsTrigger_AnyType(f) ==
    \/ f.mt = "text" /\ ~UnmarshalBase(f).err
    \/ f.mt = "binary"

\* The frames on which the read loop reaches its trigger code.
IsTrigger(f) ==
    \/ /\ f.mt = "text"
       /\ ~UnmarshalBase(f).err
       /\ UnmarshalBase(f).Type \in {"input_audio_buffer.append", "response.create"}
    \/ f.mt = "binary"

\* --------------------------------------------------------- recording files

\* One line of a recording as bufio.Scanner and json.Unmarshal see it:
\*   kind   "blank": an empty line; "corrupt": a line json.Unmarshal rejects
\*          as a RecordedEvent; "event": {"timestamp": ts, "data": data}
\*   long   the line does not fit the scanner's buffer (maxCapacity)
BlankLine == [kind |-> "blank", long |-> FALSE, ts |-> 0, data |-> ""]
CorruptLine == [kind |-> "corrupt", long |-> FALSE, ts |-> 0, data |-> ""]
EventLine(t, d) == [kind |-> "event", long |-> FALSE, ts |-> t, data |-> d]
\* A recorded event whose payload makes the line longer than the buffer.
LongEventLine(t, d) == [kind |-> "event", long |-> TRUE, ts |-> t, data |-> d]

Payloads == {"p1", "p2"}

\* The instants T, T+50 and T+120.
Timestamps == {RecT, RecT + 50, RecT + 120}

EventLines == { EventLine(t, d) : t \in Timestamps, d \in Payloads }

Lines == {BlankLine, CorruptLine, LongEventLine(RecT, "p2")} \cup EventLines

\* json.Unmarshal(line, &event): Data is the raw bytes of the data value.
UnmarshalRecordedEvent(line) ==
    IF line.kind = "event"
    THEN [err |-> FALSE, Timestamp |-> line.ts, Data |-> line.data]
    ELSE [err |-> TRUE, Timestamp |-> 0, Data |-> ""]

\* ------------------------------------------------------- scripted events

\* A text is a sequence of characters.  unicode.IsSpace holds of " " and of
\* "\t" (among others), not of letters.
Letters == {"a", "b"}
Spaces == {" ", "\t"}
Chars == Letters \cup Spaces

IsSpace(c) == c \in Spaces

\* strings.Fields, as a scan from the left: cur is the field being read,
\* acc the fields found.
RECURSIVE FieldsFrom(_, _, _)
FieldsFrom(s, cur, acc) ==
    IF s = <<>>
    THEN IF cur = <<>> THEN acc ELSE Append(acc, cur)
    ELSE IF IsSpace(Head(s))
         THEN FieldsFrom(Tail(s), <<>>, IF cur = <<>> THEN acc ELSE Append(acc, cur))
         ELSE FieldsFrom(Tail(s), Append(cur, Head(s)), acc)

\* strings.Fields(text)
Fields(text) == FieldsFrom(text, <<>>, <<>>)

\* The concatenation of a sequence of texts.
RECURSIVE Concat(_)
Concat(ss) == IF ss = <<>> THEN <<>> ELSE Head(ss) \o Concat(Tail(ss))

\* config.go's Event and FunctionCallDefinition; NoFunctionCall is the nil
\* pointer.
NoFunctionCall == [nil |-> TRUE, Name |-> "", Arguments |-> <<>>]
FunctionCallDefinition(name, args) == [nil |-> FALSE, Name |-> name, Arguments |-> args]

MessageEvent(delay, text) ==
    [Type |-> "message", DelayMs |-> delay, Text |-> text, FunctionCall |-> NoFunctionCall]
FunctionCallEvent(delay, name, args) ==
    [Type |-> "function_call", DelayMs |-> delay, Text |-> <<>>,
     FunctionCall |-> FunctionCallDefinition(name, args)]
UserTranscriptionEvent(delay, text) ==
    [Type |-> "user_transcription", DelayMs |-> delay, Text |-> text,
     FunctionCall |-> NoFunctionCall]

\* sendFunctionCall's chunkSize.
chunkSize == 10

\* The WAV header streamAudio skips.
wavHeaderBytes == 44

\* A string is the sequence of its bytes.  An argument string of n ASCII
\* bytes: byte k is k.
ArgString(n) == [k \in 1..n |-> k]

\* The two bytes of a non-ASCII character in UTF-8 (0xC3 0xA9).
TwoByteChar == <<195, 169>>

\* An argument string of n bytes whose bytes p and p+1 are one two-byte
\* character, the others ASCII.
ArgStringWith(n, p) ==
    [k \in 1..n |-> IF k = p THEN TwoByteChar[1]
                    ELSE IF k = p + 1 THEN TwoByteChar[2] ELSE k]

\* U+FFFD in UTF-8.
ReplacementChar == <<239, 191, 189>>

IsContinuation(b) == b \in 128..191

\* What a client reads back from a string field json.Marshal has encoded:
\* encoding/json coerces a Go string to valid UTF-8, writing U+FFFD for
\* every byte that does not start a well-formed sequence (escapes such as
\* \u003c decode back to the byte they stand for).  One-, two- and three-byte
\* sequences are told apart by their lead byte.
RECURSIVE MarshalString(_)
MarshalString(s) ==
    IF s = <<>> THEN <<>>
    ELSE IF Head(s) < 128
         THEN <<Head(s)>> \o MarshalString(Tail(s))
    ELSE IF Head(s) \in 194..223 /\ Len(s) >= 2 /\ IsContinuation(s[2])
         THEN SubSeq(s, 1, 2) \o MarshalString(SubSeq(s, 3, Len(s)))
    ELSE IF /\ Head(s) \in 224..239 /\ Len(s) >= 3
            /\ IsContinuation(s[2]) /\ IsContinuation(s[3])
         THEN SubSeq(s, 1, 3) \o MarshalString(SubSeq(s, 4, Len(s)))
    ELSE ReplacementChar \o MarshalString(Tail(s))

\* An audio file: whether os.Open succeeds, how many bytes it holds, and
\* the bytes after the header (byte k is k).
WavFile(exists, size) == [exists |-> exists, size |-> size]
WavData(w) == [k \in 1..Max(0, w.size - wavHeaderBytes) |-> k % 256]

\* s[from+1 .. to], Go's s[from:to].
Slice(s, from, to) == SubSeq(s, from + 1, to)

\* ------------------------------------------------------------ the history

\* An entry of the history.  by is the function that made the write or took
\* the sleep.  ev is the scenario event (its index in the scenario) the
\* function was called for: the code's responseID / itemID, which is
\* generated afresh by every handler call; it is 0 outside runScenario.
SendEntry(f, ok, e, by) ==
    [op |-> "send", ok |-> ok, ms |-> 0, frame |-> f, ev |-> e, by |-> by]
SleepEntry(ms, e, by) ==
    [op |-> "sleep", ok |-> TRUE, ms |-> ms, frame |-> NoFrame, ev |-> e, by |-> by]

\* The frames delivered to the client, in order.
RECURSIVE Delivered(_)
Delivered(w) ==
    IF w = <<>> THEN <<>>
    ELSE IF Head(w).op = "send" /\ Head(w).ok
         THEN <<Head(w).frame>> \o Delivered(Tail(w))
         ELSE Delivered(Tail(w))

\* The writes attempted, delivered or not, in order.
RECURSIVE Attempts(_)
Attempts(w) ==
    IF w = <<>> THEN <<>>
    ELSE IF Head(w).op = "send"
         THEN <<Head(w)>> \o Attempts(Tail(w))
         ELSE Attempts(Tail(w))

\* ------------------------------------------------------- outbound frames

SessionCreated == [type |-> "session.created"]
ConversationCreated == [type |-> "conversation.created"]
\* runReplay's frame: the recorded payload, as a text frame.
RawFrame(d) == [type |-> "<recorded>", data |-> d]

\* The frames of streamMessageResponse; text is event.Text.
MessageOpening ==
    << [type |-> "response.created"],
       [type |-> "response.output_item.added"],
       [type |-> "conversation.item.created"],
       [type |-> "response.content_part.added"] >>
MessageClosing(text) ==
    << [type |-> "response.content_part.done", transcript |-> text],
       [type |-> "response.output_item.done", transcript |-> text],
       [type |-> "response.done", transcript |-> text] >>
\* base64.StdEncoding.EncodeToString: each group of three bytes becomes four
\* six-bit characters (here their values, 0..63); a last group of one or two
\* bytes is filled up with zero bits and padded with "=" (here 64).
EncodeToString_Raw(b) == b
EncodeToString(b) ==
    LET n == Len(b)
        byte(i) == IF i <= n THEN b[i] ELSE 0
        v(g) == byte(3 * g - 2) * 65536 + byte(3 * g - 1) * 256 + byte(3 * g)
        sextet(g, k) ==
            CASE k = 1 -> v(g) \div 262144
              [] k = 2 -> (v(g) \div 4096) % 64
              [] k = 3 -> (v(g) \div 64) % 64
              [] OTHER -> v(g) % 64
    IN  [j \in 1..(4 * ((n + 2) \div 3)) |->
            LET g == (j + 3) \div 4
                k == j - 4 * (g - 1)
            IN  IF 3 * (g - 1) + k - 1 > n THEN 64 ELSE sextet(g, k)]

AudioDelta(bytes) ==
    [type |-> "response.audio.delta", delta |-> EncodeToString(bytes)]
AudioDone == [type |-> "response.output_audio.done"]
TranscriptDelta(d) == [type |-> "response.audio_transcript.delta", delta |-> d]
TranscriptDone(text) ==
    [type |-> "response.output_audio_transcript.done", transcript |-> text]

\* The frames of sendFunctionCall; fc is event.FunctionCall.  A variant
\* that announces the output item before the conversation item.
FunctionCallOpening_ItemFirst(fc) ==
    << [type |-> "response.created"],
       [type |-> "response.output_item.added", name |-> fc.Name, arguments |-> <<>>],
       [type |-> "conversation.item.created", name |-> fc.Name, arguments |-> <<>>] >>

\* The frames of sendFunctionCall; fc is event.FunctionCall.
FunctionCallOpening(fc) ==
    << [type |-> "response.created"],
       [type |-> "conversation.item.created", name |-> fc.Name, arguments |-> <<>>],
       [type |-> "response.output_item.added", name |-> fc.Name, arguments |-> <<>>] >>
ArgumentsDelta(chunk) ==
    [type |-> "response.function_call_arguments.delta", delta |-> MarshalString(chunk)]
FunctionCallClosing(fc) ==
    << [type |-> "response.function_call_arguments.done",
        arguments |-> MarshalString(fc.Arguments)],
       [type |-> "response.done", name |-> fc.Name,
        arguments |-> MarshalString(fc.Arguments)] >>

\* The frames of sendUserTranscription; text is event.Text.  A variant that
\* wraps them in a response.
UserTranscriptionFrames_Wrapped(text) ==
    << [type |-> "response.created"],
       [type |-> "input_audio_buffer.committed"],
       [type |-> "conversation.item.created"],
       [type |-> "conversation.item.input_audio_transcription.completed",
        transcript |-> text],
       [type |-> "response.done"] >>

\* The frames of sendUserTranscription; text is event.Text.
UserTranscriptionFrames(text) ==
    << [type |-> "input_audio_buffer.committed"],
       [type |-> "conversation.item.created"],
       [type |-> "conversation.item.input_audio_transcription.completed",
        transcript |-> text] >>

\* ---------------------------------------------------------------- state

VARIABLES
    cfg,            \* what is fixed when the connection is accepted (see Config)
    readBudget,     \* how many more frames the client sends
    hpc,            \* handleMockWebSocket: "sendSession", "sendConv", "read",
                    \*   "exit" (left the read loop or failed a welcome send),
                    \*   "returned" (the deferred safeConn.Close() has run)
                    \*   "notUpgraded" (returned before upgrader.Upgrade)
    audioReceived,  \* the handler's flag of that name
    onceDone,       \* scenarioOnce has fired
    lastRead,       \* the frame the read loop read last (NoFrame: none yet)
    nQual,          \* how many of the frames read were trigger frames
    netUp,          \* the peer is there: a write on the open socket succeeds
    closed,         \* safeConn.Close() has been called
    mu,             \* SafeWebSocket.Mu: the goroutine holding it, or "none"
    wpc,            \* where each goroutine is inside SafeWebSocket.WriteMessage
    sock,           \* what Conn.WriteMessage put on the socket, piece by piece
    wire,           \* the history: writes attempted and sleeps taken, in order
    spawned,        \* goroutines started by the trigger code
    started,        \* calls of runReplay or runScenario
    ran,            \* the functions so called, in order
    trigKind,       \* which trigger branch spawned the goroutine: "text"/"binary"
    bpc,            \* the background goroutine's position
    lineIdx,        \* runReplay: the line the scanner is at (1-based)
    lastTimestamp,  \* runReplay
    firstEvent,     \* runReplay
    event,          \* runReplay: the RecordedEvent being sent
    evIdx,          \* runScenario: the index of the event being executed
    step,           \* the event handler's position in its run of sends
    argPos,         \* sendFunctionCall: i, the offset into args
    taskEv,         \* the responseID the two streaming tasks were given
    apc,            \* streamAudio: "off", "open", "tick", "mark", "done"
    aOff,           \* streamAudio: bytes of PCM data read so far
    tpc,            \* streamTranscript: "off", "start", "tick", "mark", "done"
    wordIndex,      \* streamTranscript
    ppc,            \* handleProxyWebSocket: "off", "key", "dial", "recIn",
                    \*   "recOut", "wait", "returned"
    dials,          \* calls of websocket.DefaultDialer.Dial
    lpc,            \* the two forwarding loops: "off", "read", "record",
                    \*   "write", "done"
    held,           \* the message each loop has read and not yet written
    inq,            \* the frames each source will still send
    out,            \* the frames written to the client and to the upstream
    conn,           \* each connection: closed locally, peer gone
    rec,            \* each Recorder: its file (a path, or "nil"), or "none"
    rmu,            \* each Recorder's mu: the goroutine holding it, or "none"
    rpc,            \* where each caller is inside Recorder.RecordMessage
    rts,            \* the timestamp each caller has taken
    disk,           \* the recording directory: the lines of each file
    clock           \* the wall clock, in milliseconds

sessVars == <<hpc, audioReceived, onceDone, lastRead, nQual, readBudget>>
lockVars == <<mu, wpc, sock>>
connVars == <<netUp, closed, lockVars>>
bgVars == <<spawned, started, ran, trigKind, bpc>>
replayVars == <<lineIdx, lastTimestamp, firstEvent, event>>
scenVars == <<evIdx, step, argPos>>
taskVars == <<taskEv, apc, aOff, tpc, wordIndex>>
relayVars == <<ppc, dials, lpc, held, inq, out, conn>>
recVars == <<rec, rmu, rpc, rts, disk, clock>>
proxyVars == <<relayVars, recVars>>

vars == <<cfg, sessVars, connVars, wire, bgVars, replayVars, scenVars, taskVars,
          proxyVars>>

\* -------------------------------------------------------- the connection

\* SafeWebSocket.WriteMessage succeeds.  A variant in which a write on a
\* socket closed locally still succeeds.
WriteOK_AfterClose == netUp

\* SafeWebSocket.WriteMessage: the write fails once the socket is closed
\* locally or the peer is gone.
WriteOK == netUp /\ ~closed

\* The history after WriteMessage(frame), called by function `by` for
\* scenario event e.
WriteMessage(f, e, by) == Append(wire, SendEntry(f, WriteOK, e, by))

\* sendJSONEvent(conn, payload): json.Marshal of these payloads cannot fail.
sendJSONEvent(f, e, by) == WriteMessage(f, e, by)

\* The peer goes away (network failure, client killed).
NetDown ==
    /\ netUp
    /\ netUp' = FALSE
    /\ UNCHANGED <<cfg, proxyVars, sessVars, closed, lockVars, wire, bgVars, replayVars,
                   scenVars, taskVars>>

\* ------------------------------------- SafeWebSocket.WriteMessage, by step

\* The goroutines that write to one connection: the scenario task, the two
\* streaming tasks of a message event, and a relay loop.
Writers == {"runScenario", "streamAudio", "streamTranscript", "relay"}

\* Goroutine g calls WriteMessage and reaches s.Mu.Lock().
WriteCall(g) ==
    /\ wpc[g] = "idle"
    /\ Cardinality({ h \in Writers : wpc[h] \in {"waiting", "locked"} })
          + Cardinality({ i \in 1..Len(sock) : sock[i][2] = "head" }) < MaxWrites
    /\ wpc' = [wpc EXCEPT ![g] = "waiting"]
    /\ UNCHANGED <<cfg, proxyVars, sessVars, netUp, closed, mu, sock, wire, bgVars, replayVars,
                   scenVars, taskVars>>

\* s.Mu.Lock() returns.  A variant in which every caller locks a mutex of
\* its own (the wrapper passed by value).
MuLock_OwnMutex(g) ==
    /\ wpc[g] = "waiting"
    /\ mu' = g
    /\ wpc' = [wpc EXCEPT ![g] = "locked"]
    /\ UNCHANGED <<cfg, proxyVars, sessVars, netUp, closed, sock, wire, bgVars, replayVars,
                   scenVars, taskVars>>

\* s.Mu.Lock() returns: the mutex was free and g holds it.
MuLock(g) ==
    /\ wpc[g] = "waiting"
    /\ mu = "none"
    /\ mu' = g
    /\ wpc' = [wpc EXCEPT ![g] = "locked"]
    /\ UNCHANGED <<cfg, proxyVars, sessVars, netUp, closed, sock, wire, bgVars, replayVars,
                   scenVars, taskVars>>

\* s.Conn.WriteMessage begins: the frame's header goes to the socket.
ConnWriteHead(g) ==
    /\ wpc[g] = "locked"
    /\ sock' = Append(sock, <<g, "head">>)
    /\ wpc' = [wpc EXCEPT ![g] = "writing"]
    /\ UNCHANGED <<cfg, proxyVars, sessVars, netUp, closed, mu, wire, bgVars, replayVars,
                   scenVars, taskVars>>

\* s.Conn.WriteMessage ends: the frame's payload goes to the socket.
ConnWritePayload(g) ==
    /\ wpc[g] = "writing"
    /\ sock' = Append(sock, <<g, "payload">>)
    /\ wpc' = [wpc EXCEPT ![g] = "written"]
    /\ UNCHANGED <<cfg, proxyVars, sessVars, netUp, closed, mu, wire, bgVars, replayVars,
                   scenVars, taskVars>>

\* defer s.Mu.Unlock(), and WriteMessage returns.
MuUnlock(g) ==
    /\ wpc[g] = "written"
    /\ mu' = "none"
    /\ wpc' = [wpc EXCEPT ![g] = "idle"]
    /\ UNCHANGED <<cfg, proxyVars, sessVars, netUp, closed, sock, wire, bgVars, replayVars,
                   scenVars, taskVars>>

\* --------------------------------------------------- handleMockWebSocket

SendSessionCreated ==
    /\ hpc = "sendSession"
    /\ wire' = sendJSONEvent(SessionCreated, 0, "handleMockWebSocket")
    /\ hpc' = IF WriteOK THEN "sendConv" ELSE "exit"
    /\ UNCHANGED <<cfg, proxyVars, audioReceived, onceDone, lastRead, nQual, readBudget,
                   connVars, bgVars, replayVars,
                   scenVars, taskVars>>

\* A variant that enters the read loop whatever the send returned.
SendConversationCreated_IgnoreErr ==
    /\ hpc = "sendConv"
    /\ wire' = sendJSONEvent(ConversationCreated, 0, "handleMockWebSocket")
    /\ hpc' = "read"
    /\ UNCHANGED <<cfg, proxyVars, audioReceived, onceDone, lastRead, nQual, readBudget,
                   connVars, bgVars, replayVars,
                   scenVars, taskVars>>

SendConversationCreated ==
    /\ hpc = "sendConv"
    /\ wire' = sendJSONEvent(ConversationCreated, 0, "handleMockWebSocket")
    /\ hpc' = IF WriteOK THEN "read" ELSE "exit"
    /\ UNCHANGED <<cfg, proxyVars, audioReceived, onceDone, lastRead, nQual, readBudget,
                   connVars, bgVars, replayVars,
                   scenVars, taskVars>>

\* scenarioOnce.Do(func() { go func() {...}() })
OnceDo(kind) ==
    IF onceDone
    THEN UNCHANGED <<onceDone, bgVars>>
    ELSE /\ onceDone' = TRUE
         /\ spawned' = spawned + 1
         /\ trigKind' = kind
         /\ bpc' = "spawned"
         /\ UNCHANGED <<started, ran>>

\* The handler is at conn.ReadMessage().  A variant in which the trigger
\* code calls the run itself instead of starting a goroutine for it.
AtReadMessage_RunInline == hpc = "read" /\ bpc \in {"idle", "done"}

\* The handler is at conn.ReadMessage(): the run is in a goroutine of its
\* own (go func), so where it is does not matter.
AtReadMessage == hpc = "read"

\* A read loop iteration whose ReadMessage returns frame f.  A variant that
\* fires the trigger code on every trigger frame.
ReadFrame_NoLatch(f) ==
    /\ hpc = "read"
    /\ netUp
    /\ readBudget > 0
    /\ f \in cfg.clientFrames
    /\ readBudget' = readBudget - 1
    /\ lastRead' = f
    /\ nQual' = nQual + (IF IsTrigger(f) THEN 1 ELSE 0)
    /\ IF IsTrigger(f)
       THEN /\ audioReceived' = TRUE
            /\ spawned' = spawned + 1
            /\ trigKind' = f.mt
            /\ bpc' = "spawned"
            /\ UNCHANGED <<onceDone, started, ran>>
       ELSE UNCHANGED <<audioReceived, onceDone, bgVars>>
    /\ UNCHANGED <<cfg, proxyVars, hpc, connVars, wire, replayVars,
                   scenVars, taskVars>>

\* A read loop iteration whose ReadMessage returns frame f.
ReadFrame(f) ==
    /\ AtReadMessage
    /\ netUp
    /\ readBudget > 0
    /\ f \in cfg.clientFrames
    /\ readBudget' = readBudget - 1
    /\ lastRead' = f
    /\ nQual' = nQual + (IF IsTrigger(f) THEN 1 ELSE 0)
    /\ IF IsTrigger(f) /\ ~audioReceived
       THEN /\ audioReceived' = TRUE
            /\ OnceDo(f.mt)
       ELSE UNCHANGED <<audioReceived, onceDone, bgVars>>
    /\ UNCHANGED <<cfg, proxyVars, hpc, connVars, wire, replayVars,
                   scenVars, taskVars>>

\* A variant of ReadError that takes the close for a trigger.
ReadError_Triggers ==
    /\ AtReadMessage
    /\ hpc' = "exit"
    /\ audioReceived' = TRUE
    /\ OnceDo("binary")
    /\ UNCHANGED <<cfg, proxyVars, lastRead, nQual, readBudget,
                   connVars, wire, replayVars,
                   scenVars, taskVars>>

\* A read loop iteration whose ReadMessage returns an error (the client
\* closed, or the peer is gone): break.
ReadError ==
    /\ AtReadMessage
    /\ hpc' = "exit"
    /\ UNCHANGED <<cfg, proxyVars, audioReceived, onceDone, lastRead, nQual, readBudget,
                   connVars, wire, bgVars, replayVars,
                   scenVars, taskVars>>

\* The handler returns: defer safeConn.Close().
HandlerReturn ==
    /\ hpc = "exit"
    /\ hpc' = "returned"
    /\ closed' = TRUE
    /\ UNCHANGED <<cfg, proxyVars, audioReceived, onceDone, lastRead, nQual, readBudget,
                   netUp, lockVars, wire, bgVars, replayVars,
                   scenVars, taskVars>>

\* ------------------------------------------------ the trigger's goroutine

\* The goroutine's body up to the call of runReplay or runScenario: the text
\* branch sleeps the response delay only for a scenario, the binary branch
\* for a replay as well.
GoroutineStart ==
    /\ bpc = "spawned"
    /\ LET delays == /\ cfg.Mock.ResponseDelaySeconds > 0
                     /\ (trigKind = "binary" \/ ~cfg.isReplay)
       IN  wire' = IF delays
                   THEN Append(wire, SleepEntry(cfg.Mock.ResponseDelaySeconds * 1000, 0, "goroutine"))
                   ELSE wire
    /\ bpc' = "run"
    /\ UNCHANGED <<cfg, proxyVars, sessVars, connVars, spawned, started, ran, trigKind, replayVars,
                   scenVars, taskVars>>

\* ------------------------------------------------------------- runReplay

NoEvent == [err |-> FALSE, Timestamp |-> 0, Data |-> ""]

\* runReplay is called: os.Open(filePath), the scanner and its buffer.
ReplayOpen ==
    /\ bpc = "run"
    /\ cfg.isReplay
    /\ started' = started + 1
    /\ ran' = Append(ran, "runReplay")
    /\ bpc' = IF cfg.replayOpens THEN "rScan" ELSE "done"
    /\ lineIdx' = 1
    /\ lastTimestamp' = 0
    /\ firstEvent' = TRUE
    /\ event' = NoEvent
    /\ UNCHANGED <<cfg, proxyVars, sessVars, connVars, wire, spawned, trigKind,
                   scenVars, taskVars>>

\* scanner.Scan() is false at the end of the file: "Replay completed".
ReplayEOF ==
    /\ bpc = "rScan"
    /\ lineIdx > Len(cfg.replayFile)
    /\ bpc' = "done"
    /\ UNCHANGED <<cfg, proxyVars, sessVars, connVars, wire, spawned, started, ran, trigKind,
                   replayVars,
                   scenVars, taskVars>>

\* scanner.Scan() is false on a line longer than maxCapacity (bufio's
\* ErrTooLong): scanner.Err() is logged and the function returns.
ReplayTooLong ==
    /\ bpc = "rScan"
    /\ lineIdx <= Len(cfg.replayFile)
    /\ cfg.replayFile[lineIdx].long
    /\ bpc' = "done"
    /\ UNCHANGED <<cfg, proxyVars, sessVars, connVars, wire, spawned, started, ran, trigKind,
                   replayVars,
                   scenVars, taskVars>>

\* len(line) == 0: continue.
ReplaySkipBlank ==
    /\ bpc = "rScan"
    /\ lineIdx <= Len(cfg.replayFile)
    /\ ~cfg.replayFile[lineIdx].long
    /\ cfg.replayFile[lineIdx].kind = "blank"
    /\ lineIdx' = lineIdx + 1
    /\ UNCHANGED <<cfg, proxyVars, sessVars, connVars, wire, bgVars, lastTimestamp,
                   firstEvent, event,
                   scenVars, taskVars>>

\* json.Unmarshal fails: "Error parsing replay line ... Skipping."; continue.
\* A variant that returns instead.
ReplaySkipCorrupt_Abort ==
    /\ bpc = "rScan"
    /\ lineIdx <= Len(cfg.replayFile)
    /\ ~cfg.replayFile[lineIdx].long
    /\ cfg.replayFile[lineIdx].kind # "blank"
    /\ UnmarshalRecordedEvent(cfg.replayFile[lineIdx]).err
    /\ bpc' = "done"
    /\ UNCHANGED <<cfg, proxyVars, sessVars, connVars, wire, spawned, started, ran, trigKind,
                   replayVars,
                   scenVars, taskVars>>

\* json.Unmarshal fails: "Error parsing replay line ... Skipping."; continue.
ReplaySkipCorrupt ==
    /\ bpc = "rScan"
    /\ lineIdx <= Len(cfg.replayFile)
    /\ ~cfg.replayFile[lineIdx].long
    /\ cfg.replayFile[lineIdx].kind # "blank"
    /\ UnmarshalRecordedEvent(cfg.replayFile[lineIdx]).err
    /\ lineIdx' = lineIdx + 1
    /\ UNCHANGED <<cfg, proxyVars, sessVars, connVars, wire, bgVars, lastTimestamp,
                   firstEvent, event,
                   scenVars, taskVars>>

\* The delay runReplay computes for an event with timestamp ts.  A variant
\* that takes the timestamp itself for the delay.
ReplayDelay_Absolute(ts) == ts

\* The delay runReplay computes for an event with timestamp ts: firstEvent
\* makes lastTimestamp the event's own timestamp.
ReplayDelay(ts) ==
    (ts - (IF firstEvent THEN ts ELSE lastTimestamp))

\* A line that parses: the delay is computed and slept.
ReplayEvent ==
    /\ bpc = "rScan"
    /\ lineIdx <= Len(cfg.replayFile)
    /\ ~cfg.replayFile[lineIdx].long
    /\ cfg.replayFile[lineIdx].kind # "blank"
    /\ ~UnmarshalRecordedEvent(cfg.replayFile[lineIdx]).err
    /\ LET ev == UnmarshalRecordedEvent(cfg.replayFile[lineIdx])
           delay == ReplayDelay(ev.Timestamp)
       IN  /\ event' = ev
           /\ firstEvent' = FALSE
           /\ lastTimestamp' = ev.Timestamp
           /\ wire' = IF delay > 0 THEN Append(wire, SleepEntry(delay, 0, "runReplay")) ELSE wire
    /\ bpc' = "rSend"
    /\ UNCHANGED <<cfg, proxyVars, sessVars, connVars, spawned, started, ran, trigKind, lineIdx,
                   scenVars, taskVars>>

\* What runReplay does after conn.WriteMessage returned.  A variant that
\* goes on after a failed write.
AfterReplayWrite_GoOn(ok) == "rScan"

\* What runReplay does after conn.WriteMessage returned: a failed write
\* returns.
AfterReplayWrite(ok) == IF ok THEN "rScan" ELSE "done"

\* The payload runReplay writes for the event.  A variant that writes the
\* same payload for every event.
ReplayPayload_Fixed(ev) == "p1"

\* The payload runReplay writes for the event: event.Data.
ReplayPayload(ev) == ev.Data

\* conn.WriteMessage(websocket.TextMessage, event.Data)
ReplaySend ==
    /\ bpc = "rSend"
    /\ wire' = WriteMessage(RawFrame(ReplayPayload(event)), 0, "runReplay")
    /\ bpc' = AfterReplayWrite(WriteOK)
    /\ lineIdx' = lineIdx + 1
    /\ event' = NoEvent
    /\ UNCHANGED <<cfg, proxyVars, sessVars, connVars, spawned, started, ran, trigKind,
                   lastTimestamp, firstEvent,
                   scenVars, taskVars>>

\* ------------------------------------------------------------ runScenario

\* The event runScenario is executing, and the one the tasks stream for.
CurrentEvent == cfg.selectedScenario[evIdx]
TaskEvent == cfg.selectedScenario[taskEv]

\* runScenario is called.
ScenarioStart ==
    /\ bpc = "run"
    /\ ~cfg.isReplay
    /\ started' = started + 1
    /\ ran' = Append(ran, "runScenario")
    /\ bpc' = "sLoop"
    /\ evIdx' = 1
    /\ step' = 1
    /\ argPos' = 0
    /\ UNCHANGED <<cfg, proxyVars, sessVars, connVars, wire, spawned, trigKind, replayVars,
                   taskVars>>

\* Where the switch of runScenario sends an event.
Dispatch(e) ==
    CASE e.Type = "message" -> "mOpen"
      [] e.Type = "function_call" /\ ~e.FunctionCall.nil -> "fOpen"
      [] e.Type = "user_transcription" -> "uSeq"
      [] OTHER -> "sLoop"

\* One iteration of runScenario's loop up to the handler's first send: the
\* event's delay is slept, then the event is dispatched.  An unknown type
\* and a function_call without a definition return at once.
ScenarioEvent ==
    /\ bpc = "sLoop"
    /\ evIdx <= Len(cfg.selectedScenario)
    /\ wire' = IF CurrentEvent.DelayMs > 0
               THEN Append(wire, SleepEntry(CurrentEvent.DelayMs, evIdx, "runScenario"))
               ELSE wire
    /\ bpc' = Dispatch(CurrentEvent)
    /\ step' = 1
    /\ evIdx' = IF Dispatch(CurrentEvent) = "sLoop" THEN evIdx + 1 ELSE evIdx
    /\ UNCHANGED <<cfg, proxyVars, sessVars, connVars, spawned, started, ran, trigKind, replayVars,
                   argPos, taskVars>>

\* The loop is over: "Scenario execution completed".
ScenarioEnd ==
    /\ bpc = "sLoop"
    /\ evIdx > Len(cfg.selectedScenario)
    /\ bpc' = "done"
    /\ UNCHANGED <<cfg, proxyVars, sessVars, connVars, wire, spawned, started, ran, trigKind,
                   replayVars, scenVars, taskVars>>

\* An event handler sends frame number `step` of frames; a failed send, and
\* the last frame, return to runScenario's loop; otherwise `after` follows
\* the last frame.
SendInOrder(frames, after, by) ==
    /\ wire' = sendJSONEvent(frames[step], evIdx, by)
    /\ IF ~WriteOK \/ (step = Len(frames) /\ after = "sLoop")
       THEN /\ bpc' = "sLoop"
            /\ evIdx' = evIdx + 1
            /\ step' = 1
       ELSE IF step = Len(frames)
            THEN /\ bpc' = after
                 /\ step' = 1
                 /\ UNCHANGED evIdx
            ELSE /\ step' = step + 1
                 /\ UNCHANGED <<bpc, evIdx>>

\* ------------------------------------------------- streamMessageResponse

\* response.created ... response.content_part.added
MessageOpen ==
    /\ bpc = "mOpen"
    /\ SendInOrder(MessageOpening, "mFork", "streamMessageResponse")
    /\ UNCHANGED <<cfg, proxyVars, sessVars, connVars, spawned, started, ran, trigKind, replayVars,
                   argPos, taskVars>>

\* A variant of MessageFork that returns from streamMessageResponse when
\* there is nothing to stream.
MessageFork_ReturnIfEmpty ==
    /\ bpc = "mFork"
    /\ apc' = IF cfg.Mock.AudioWavPath # "" THEN "open" ELSE "off"
    /\ tpc' = IF CurrentEvent.Text # <<>> THEN "start" ELSE "off"
    /\ taskEv' = evIdx
    /\ aOff' = 0
    /\ wordIndex' = 0
    /\ IF cfg.Mock.AudioWavPath = "" /\ CurrentEvent.Text = <<>>
       THEN bpc' = "sLoop" /\ evIdx' = evIdx + 1
       ELSE bpc' = "mWait" /\ UNCHANGED evIdx
    /\ UNCHANGED <<cfg, proxyVars, sessVars, connVars, wire, spawned, started, ran, trigKind,
                   replayVars, step, argPos>>

\* wg.Add(1); go streamAudio / go streamTranscript, each only when its
\* source is configured.
MessageFork ==
    /\ bpc = "mFork"
    /\ apc' = IF cfg.Mock.AudioWavPath # "" THEN "open" ELSE "off"
    /\ tpc' = IF CurrentEvent.Text # <<>> THEN "start" ELSE "off"
    /\ taskEv' = evIdx
    /\ aOff' = 0
    /\ wordIndex' = 0
    /\ bpc' = "mWait"
    /\ UNCHANGED <<cfg, proxyVars, sessVars, connVars, wire, spawned, started, ran, trigKind,
                   replayVars, scenVars>>

\* The WaitGroup's counter is zero.  A variant that never waits.
WaitGroupZero_NoWait == TRUE

\* A variant that waits for both tasks, started or not.
WaitGroupZero_BothTasks == apc = "done" /\ tpc = "done"

\* The WaitGroup's counter is zero: each started task has called wg.Done().
WaitGroupZero == apc \in {"off", "done"} /\ tpc \in {"off", "done"}

\* wg.Wait() returns.
MessageWait ==
    /\ bpc = "mWait"
    /\ WaitGroupZero
    /\ bpc' = "mClose"
    /\ step' = 1
    /\ UNCHANGED <<cfg, proxyVars, sessVars, connVars, wire, spawned, started, ran, trigKind,
                   replayVars, evIdx, argPos, taskVars>>

\* response.content_part.done, response.output_item.done, response.done
MessageClose ==
    /\ bpc = "mClose"
    /\ SendInOrder(MessageClosing(CurrentEvent.Text), "sLoop", "streamMessageResponse")
    /\ UNCHANGED <<cfg, proxyVars, sessVars, connVars, spawned, started, ran, trigKind, replayVars,
                   argPos, taskVars>>

\* ------------------------------------------------------------ streamAudio

\* A variant of AudioOpen in which a source that cannot be read ends the
\* transcript as well.
AudioOpen_Fatal ==
    /\ apc = "open"
    /\ apc' = IF cfg.wav.exists /\ cfg.wav.size >= wavHeaderBytes
              THEN "tick" ELSE "done"
    /\ tpc' = IF cfg.wav.exists /\ cfg.wav.size >= wavHeaderBytes
              THEN tpc ELSE "done"
    /\ UNCHANGED <<cfg, proxyVars, sessVars, connVars, wire, bgVars, replayVars, scenVars,
                   taskEv, aOff, wordIndex>>

\* os.Open and io.ReadFull of the header: either failing returns.
AudioOpen ==
    /\ apc = "open"
    /\ apc' = IF cfg.wav.exists /\ cfg.wav.size >= wavHeaderBytes
              THEN "tick" ELSE "done"
    /\ UNCHANGED <<cfg, proxyVars, sessVars, connVars, wire, bgVars, replayVars, scenVars,
                   taskEv, aOff, tpc, wordIndex>>

\* One tick: file.Read(buffer) returns the next n bytes, or 0 and io.EOF at
\* the end of the file; n > 0 is sent as a delta, a failed send returns.
AudioTick ==
    /\ apc = "tick"
    /\ LET data == WavData(cfg.wav)
           rest == Len(data) - aOff
           n == IF rest < cfg.Mock.AudioChunkSizeBytes
                THEN rest ELSE cfg.Mock.AudioChunkSizeBytes
       IN  IF n > 0
           THEN /\ wire' = sendJSONEvent(AudioDelta(Slice(data, aOff, aOff + n)), taskEv,
                                         "streamAudio")
                /\ apc' = IF WriteOK THEN "tick" ELSE "done"
                /\ aOff' = aOff + n
           ELSE /\ apc' = "mark"
                /\ UNCHANGED <<wire, aOff>>
    /\ UNCHANGED <<cfg, proxyVars, sessVars, connVars, bgVars, replayVars, scenVars,
                   taskEv, tpc, wordIndex>>

\* response.output_audio.done
AudioMark ==
    /\ apc = "mark"
    /\ wire' = sendJSONEvent(AudioDone, taskEv, "streamAudio")
    /\ apc' = "done"
    /\ UNCHANGED <<cfg, proxyVars, sessVars, connVars, bgVars, replayVars, scenVars,
                   taskEv, aOff, tpc, wordIndex>>

\* ------------------------------------------------------- streamTranscript

\* The delta streamTranscript sends for a word.  A variant that sends the
\* word alone.
WordDelta_Bare(word) == word

\* The delta streamTranscript sends for a word: words[wordIndex] + " ".
WordDelta(word) == word \o <<" ">>

\* words := strings.Fields(text); no word: return.
TranscriptStart ==
    /\ tpc = "start"
    /\ tpc' = IF Len(Fields(TaskEvent.Text)) = 0 THEN "done" ELSE "tick"
    /\ wordIndex' = 0
    /\ UNCHANGED <<cfg, proxyVars, sessVars, connVars, wire, bgVars, replayVars, scenVars,
                   taskEv, apc, aOff>>

\* One tick: the next word is sent as a delta, a failed send returns; after
\* the last word the loop breaks.
TranscriptTick ==
    /\ tpc = "tick"
    /\ LET words == Fields(TaskEvent.Text)
       IN  IF wordIndex >= Len(words)
           THEN /\ tpc' = "mark"
                /\ UNCHANGED <<wire, wordIndex>>
           ELSE /\ wire' = sendJSONEvent(TranscriptDelta(WordDelta(words[wordIndex + 1])),
                                         taskEv, "streamTranscript")
                /\ tpc' = IF WriteOK THEN "tick" ELSE "done"
                /\ wordIndex' = IF WriteOK THEN wordIndex + 1 ELSE wordIndex
    /\ UNCHANGED <<cfg, proxyVars, sessVars, connVars, bgVars, replayVars, scenVars,
                   taskEv, apc, aOff>>

\* response.output_audio_transcript.done
TranscriptMark ==
    /\ tpc = "mark"
    /\ wire' = sendJSONEvent(TranscriptDone(TaskEvent.Text), taskEv, "streamTranscript")
    /\ tpc' = "done"
    /\ UNCHANGED <<cfg, proxyVars, sessVars, connVars, bgVars, replayVars, scenVars,
                   taskEv, apc, aOff, wordIndex>>

\* ------------------------------------------------------- sendFunctionCall

\* The pause sendFunctionCall takes after each delta, in milliseconds.
argPacingMs == 10

\* response.created, conversation.item.created, response.output_item.added
FunctionCallOpen ==
    /\ bpc = "fOpen"
    /\ SendInOrder(FunctionCallOpening(CurrentEvent.FunctionCall), "fDelta",
                   "sendFunctionCall")
    /\ argPos' = 0
    /\ UNCHANGED <<cfg, proxyVars, sessVars, connVars, spawned, started, ran, trigKind, replayVars,
                   taskVars>>

\* One iteration of the loop over args: args[i:end] is sent as a delta and
\* the pause is taken; a failed send returns.  At i >= len(args) the loop is
\* over.
FunctionCallDelta ==
    /\ bpc = "fDelta"
    /\ LET args == CurrentEvent.FunctionCall.Arguments
           end == IF argPos + chunkSize > Len(args) THEN Len(args)
                  ELSE argPos + chunkSize
       IN  IF argPos < Len(args)
           THEN /\ wire' = LET sent == sendJSONEvent(ArgumentsDelta(Slice(args, argPos, end)),
                                                   evIdx, "sendFunctionCall")
                           IN  IF WriteOK
                               THEN Append(sent, SleepEntry(argPacingMs, evIdx,
                                                            "sendFunctionCall"))
                               ELSE sent
                /\ IF WriteOK
                   THEN /\ argPos' = argPos + chunkSize
                        /\ UNCHANGED <<bpc, evIdx, step>>
                   ELSE /\ bpc' = "sLoop"
                        /\ evIdx' = evIdx + 1
                        /\ step' = 1
                        /\ UNCHANGED argPos
           ELSE /\ bpc' = "fClose"
                /\ step' = 1
                /\ UNCHANGED <<wire, evIdx, argPos>>
    /\ UNCHANGED <<cfg, proxyVars, sessVars, connVars, spawned, started, ran, trigKind, replayVars,
                   taskVars>>

\* response.function_call_arguments.done, response.done
FunctionCallClose ==
    /\ bpc = "fClose"
    /\ SendInOrder(FunctionCallClosing(CurrentEvent.FunctionCall), "sLoop",
                   "sendFunctionCall")
    /\ UNCHANGED <<cfg, proxyVars, sessVars, connVars, spawned, started, ran, trigKind, replayVars,
                   argPos, taskVars>>

\* -------------------------------------------------- sendUserTranscription

\* input_audio_buffer.committed, conversation.item.created,
\* conversation.item.input_audio_transcription.completed
UserTranscription ==
    /\ bpc = "uSeq"
    /\ SendInOrder(UserTranscriptionFrames(CurrentEvent.Text), "sLoop",
                   "sendUserTranscription")
    /\ UNCHANGED <<cfg, proxyVars, sessVars, connVars, spawned, started, ran, trigKind, replayVars,
                   argPos, taskVars>>

\* ------------------------------------------------------- configurations

\* What is fixed when the connection is accepted: whether a recording was
\* resolved (isReplay), that file's lines and whether runReplay can open it,
\* the scenario selected, appConfig.Mock, the audio file behind
\* AudioWavPath, and the frames the client may send.
Config(isReplay, file, opens, scenario, mock, wav, frames) ==
    [isReplay |-> isReplay, replayFile |-> file, replayOpens |-> opens,
     selectedScenario |-> scenario, Mock |-> mock, wav |-> wav,
     clientFrames |-> frames]

MockConfig(delay, path, chunk) ==
    [ResponseDelaySeconds |-> delay, AudioWavPath |-> path,
     AudioChunkSizeBytes |-> chunk]

\* ---- handleMockWebSocket: what the trigger is to start

\* config.go's Scenario.
ScenarioDef(name, events) == [Name |-> name, Events |-> events]

\* var selectedScenario Scenario
ZeroScenario == ScenarioDef("", <<>>)

\* The paths tried for a replaySession name, inside the recording
\* directory.  A variant that tries the exact name only.
PossiblePaths_ExactOnly(name) == <<name>>

\* The paths tried for a replaySession name, inside the recording
\* directory: the name, and the name with ".ndjson" appended.
PossiblePaths(name) == <<name, name \o ".ndjson">>

\* The fallback scenario.  A variant that takes the last one.
DefaultScenario_Last(scenarios) == scenarios[Len(scenarios)]

\* The fallback scenario: appConfig.Scenarios[0].
DefaultScenario(scenarios) == scenarios[1]

\* A variant of SelectRun that goes on to the upgrade in every case.
SelectRun_AlwaysUpgrades(scenarioName, replaySessionName, scenarios, files) ==
    LET paths == PossiblePaths(replaySessionName)
        hits == { i \in 1..Len(paths) : paths[i] \in files }
        replayFound == replaySessionName # "" /\ hits # {}
        first == CHOOSE i \in hits : \A j \in hits : i <= j
        named == { i \in 1..Len(scenarios) : scenarios[i].Name = scenarioName }
        byName == ~replayFound /\ scenarioName # "" /\ named # {}
        firstNamed == CHOOSE i \in named : \A j \in named : i <= j
    IN  [ upgrades |-> TRUE,
          isReplay |-> replayFound,
          replayFilePath |-> IF replayFound THEN paths[first] ELSE "",
          selectedScenario |->
              IF replayFound THEN ZeroScenario
              ELSE IF byName THEN scenarios[firstNamed]
              ELSE IF Len(scenarios) > 0 THEN DefaultScenario(scenarios)
              ELSE ZeroScenario ]

\* The first part of handleMockWebSocket, for the query parameters
\* scenario and replaySession, appConfig.Scenarios and the set of files for
\* which os.Stat succeeds: whether the handler goes on to upgrade the
\* connection, and isReplay, replayFilePath and selectedScenario.
SelectRun(scenarioName, replaySessionName, scenarios, files) ==
    LET paths == PossiblePaths(replaySessionName)
        hits == { i \in 1..Len(paths) : paths[i] \in files }
        replayFound == replaySessionName # "" /\ hits # {}
        first == CHOOSE i \in hits : \A j \in hits : i <= j
        named == { i \in 1..Len(scenarios) : scenarios[i].Name = scenarioName }
        byName == ~replayFound /\ scenarioName # "" /\ named # {}
        firstNamed == CHOOSE i \in named : \A j \in named : i <= j
    IN  [ upgrades |-> replayFound \/ byName \/ Len(scenarios) > 0,
          isReplay |-> replayFound,
          replayFilePath |-> IF replayFound THEN paths[first] ELSE "",
          selectedScenario |->
              IF replayFound THEN ZeroScenario
              ELSE IF byName THEN scenarios[firstNamed]
              ELSE IF Len(scenarios) > 0 THEN DefaultScenario(scenarios)
              ELSE ZeroScenario ]

\* ---------------------------------------------------------------------
\* Relay mode and the recorder: the data.

\* The two forwarding goroutines of handleProxyWebSocket, and the two
\* connections they read and write.
Dirs == {"c2u", "u2c"}
Sides == {"client", "openai"}
Source(d) == IF d = "c2u" THEN "client" ELSE "openai"
Target(d) == IF d = "c2u" THEN "openai" ELSE "client"

\* A websocket message: its type and its bytes.  The bytes are a sequence
\* of JSON tokens, " " being insignificant whitespace between two tokens
\* and "<" a string value that holds an angle bracket.
RelayFrame(mt, msg) == [mt |-> mt, msg |-> msg]
NoMsg == RelayFrame("none", <<>>)
CompactJSON == <<"{", "k", ":", "v", "}">>
SpacedJSON == <<"{", "k", ":", " ", "v", "}">>
HtmlJSON == <<"{", "k", ":", "<", "}">>
Malformed == <<"{", "k">>

\* json.Valid: whitespace between tokens is allowed, the object must close.
StripSpace(msg) == SelectSeq(msg, LAMBDA t : t # " ")
Valid(msg) ==
    StripSpace(msg) \in { <<"{", "k", ":", x, "}">> : x \in {"v", "<"} }

\* What json.Marshal writes for a json.RawMessage field: the value
\* compacted (whitespace between tokens dropped) and HTML-escaped.
appendCompact_Verbatim(msg) == msg
appendCompact(msg) ==
    LET s == StripSpace(msg)
    IN  [i \in 1..Len(s) |-> IF s[i] = "<" THEN "\\u003c" ELSE s[i]]

\* One line of a recording file, as RecordMessage builds it; by and msg
\* are not in the file: they remember the caller and what it passed.
RecordLine(ts, msg, by) ==
    [timestamp |-> ts, data |-> appendCompact(msg), msg |-> msg, by |-> by]

\* The recorders: one per session and direction.  A *Recorder is nil, or
\* holds an open file (its path), or holds no file once closed.
Sessions == {"s1", "s2"}
Prefixes == {"inbound", "outbound"}
Recorders == Sessions \X Prefixes
NilRecorder == [nil |-> TRUE, file |-> ""]
OpenRecorder(path) == [nil |-> FALSE, file |-> path]
ClosedRecorder == [nil |-> FALSE, file |-> ""]
inboundRecorder == <<"s1", "inbound">>
outboundRecorder == <<"s1", "outbound">>

\* A connection is up until it is closed here or lost.
ConnUp == [closed |-> FALSE, gone |-> FALSE]

\* Relay mode before any proxy session: nothing dialled, nothing opened.
ProxyOff ==
    /\ ppc = "off"
    /\ dials = 0
    /\ lpc = [d \in Dirs |-> "off"]
    /\ held = [d \in Dirs |-> NoMsg]
    /\ inq = [s \in Sides |-> <<>>]
    /\ out = [s \in Sides |-> <<>>]
    /\ conn = [s \in Sides |-> ConnUp]
    /\ rec = [r \in Recorders |-> NilRecorder]
    /\ rmu = [r \in Recorders |-> "none"]
    /\ rpc = [g \in Dirs |-> "idle"]
    /\ rts = [g \in Dirs |-> 0]
    /\ disk = <<>>
    /\ clock = 0

\* The mock session's variables with the handler at position at, for a
\* client that sends at most budget frames.
MockAt(at, budget) ==
    /\ readBudget = budget
    /\ hpc = at
    /\ audioReceived = FALSE
    /\ onceDone = FALSE
    /\ lastRead = NoFrame
    /\ nQual = 0
    /\ netUp = TRUE
    /\ closed = FALSE
    /\ mu = "none"
    /\ wpc = [g \in Writers |-> "idle"]
    /\ sock = <<>>
    /\ wire = <<>>
    /\ spawned = 0
    /\ started = 0
    /\ ran = <<>>
    /\ trigKind = "none"
    /\ bpc = "idle"
    /\ lineIdx = 1
    /\ lastTimestamp = 0
    /\ firstEvent = TRUE
    /\ event = NoEvent
    /\ evIdx = 1
    /\ step = 1
    /\ argPos = 0
    /\ taskEv = 1
    /\ apc = "off"
    /\ aOff = 0
    /\ tpc = "off"
    /\ wordIndex = 0

\* The mock session's variables when the connection has been upgraded.
MockIdle(budget) == MockAt("sendSession", budget)

\* The state when the connection has been upgraded, for a configuration of
\* Cs and a client that sends at most budget frames.
InitWith(Cs, budget) ==
    /\ cfg \in Cs
    /\ ProxyOff
    /\ MockIdle(budget)

\* The steps of the handler and of the connection.
Handler ==
    \/ SendSessionCreated
    \/ SendConversationCreated
    \/ \E f \in InFrames : ReadFrame(f)
    \/ ReadError
    \/ HandlerReturn

Replay ==
    \/ ReplayOpen
    \/ ReplayEOF
    \/ ReplayTooLong
    \/ ReplaySkipBlank
    \/ ReplaySkipCorrupt
    \/ ReplayEvent
    \/ ReplaySend

Message ==
    \/ MessageOpen
    \/ MessageFork
    \/ MessageWait
    \/ MessageClose
    \/ AudioOpen
    \/ AudioTick
    \/ AudioMark
    \/ TranscriptStart
    \/ TranscriptTick
    \/ TranscriptMark

Scenario ==
    \/ ScenarioStart
    \/ ScenarioEvent
    \/ ScenarioEnd
    \/ Message
    \/ FunctionCallOpen
    \/ FunctionCallDelta
    \/ FunctionCallClose
    \/ UserTranscription

\* ------------------------------------------------------- specifications

\* The texts "a b" and "a".
TextAB == <<"a", " ", "b">>
TextA == <<"a">>

NoWav == WavFile(FALSE, 0)
\* A file of a header and two bytes of PCM data.
SmallWav == WavFile(TRUE, wavHeaderBytes + 2)

\* The session as a whole: a client that sends any frames, and a few
\* recordings and scenarios behind the trigger.
SessionConfigs ==
    { Config(TRUE, file, TRUE, <<>>, MockConfig(d, "", 2), NoWav, InFrames) :
        file \in { <<EventLine(RecT, "p1"), CorruptLine, EventLine(RecT + 50, "p2")>>,
                   <<BlankLine, LongEventLine(RecT, "p1")>> },
        d \in {0, 1} }
    \cup
    { Config(FALSE, <<>>, TRUE, sc, MockConfig(d, "mock_audio.wav", 2), SmallWav, InFrames) :
        sc \in { <<MessageEvent(100, TextA)>>,
                 <<UserTranscriptionEvent(0, TextA),
                   FunctionCallEvent(0, "f", ArgString(chunkSize + 1))>> },
        d \in {0, 1} }

Init == InitWith(SessionConfigs, MaxFrames)

Next ==
    \/ Handler
    \/ NetDown
    \/ GoroutineStart
    \/ Replay
    \/ Scenario

Spec == Init /\ [][Next]_vars

\* runReplay on every recording of at most MaxLines lines, behind a client
\* that sends one binary frame.
ReplayConfigs ==
    { Config(TRUE, file, opens, <<>>, MockConfig(0, "", 2), NoWav, {BinaryFrame}) :
        file \in SeqsUpTo(Lines, MaxLines), opens \in BOOLEAN }

InitReplay == InitWith(ReplayConfigs, 1)

NextReplay ==
    \/ SendSessionCreated
    \/ SendConversationCreated
    \/ \E f \in InFrames : ReadFrame(f)
    \/ NetDown
    \/ GoroutineStart
    \/ Replay

SpecReplay == InitReplay /\ [][NextReplay]_vars

\* runScenario on every scenario of at most MaxEvents events drawn from
\* EventPool, with and without an audio file, behind a client that sends one
\* binary frame.
EventPool ==
    { MessageEvent(100, TextAB),
      MessageEvent(0, <<>>),
      FunctionCallEvent(0, "f", ArgString(chunkSize + 1)),
      UserTranscriptionEvent(100, TextA) }

\* AudioWavPath and the file behind it: no path; a path to a missing file;
\* a file shorter than a header; a file with two bytes of data.
AudioSetups ==
    { <<"", NoWav>>, <<"mock_audio.wav", NoWav>>,
      <<"mock_audio.wav", WavFile(TRUE, wavHeaderBytes - 1)>>,
      <<"mock_audio.wav", SmallWav>> }

ScenarioConfigs ==
    { Config(FALSE, <<>>, TRUE, sc, MockConfig(0, au[1], 2), au[2], {BinaryFrame}) :
        sc \in SeqsUpTo(EventPool, MaxEvents), au \in AudioSetups }

InitScenario == InitWith(ScenarioConfigs, 1)

NextScenario ==
    \/ SendSessionCreated
    \/ SendConversationCreated
    \/ \E f \in InFrames : ReadFrame(f)
    \/ NetDown
    \/ GoroutineStart
    \/ Scenario

SpecScenario == InitScenario /\ [][NextScenario]_vars

\* One message event, for every scripted text of at most MaxTextLen
\* characters, with a valid audio file and a peer that stays.
TranscriptConfigs ==
    { Config(FALSE, <<>>, TRUE, <<MessageEvent(0, text)>>,
             MockConfig(0, "mock_audio.wav", 2), SmallWav, {BinaryFrame}) :
        text \in SeqsUpTo(Chars, MaxTextLen) }

InitTranscript == InitWith(TranscriptConfigs, 1)

NextTranscript ==
    \/ SendSessionCreated
    \/ SendConversationCreated
    \/ \E f \in InFrames : ReadFrame(f)
    \/ GoroutineStart
    \/ ScenarioStart
    \/ ScenarioEvent
    \/ ScenarioEnd
    \/ Message

SpecTranscript == InitTranscript /\ [][NextTranscript]_vars

\* One function_call event, for every argument string of at most MaxArgLen
\* bytes that is ASCII or holds one two-byte character, behind a client that
\* sends one binary frame.
ArgStrings ==
    { ArgString(n) : n \in 0..MaxArgLen }
    \cup UNION { { ArgStringWith(n, p) : p \in 1..(n - 1) } : n \in 2..MaxArgLen }

FunctionCallConfigs ==
    { Config(FALSE, <<>>, TRUE, <<FunctionCallEvent(0, "f", args)>>,
             MockConfig(0, "", 2), NoWav, {BinaryFrame}) :
        args \in ArgStrings }

InitFunctionCall == InitWith(FunctionCallConfigs, 1)

NextFunctionCall ==
    \/ SendSessionCreated
    \/ SendConversationCreated
    \/ \E f \in InFrames : ReadFrame(f)
    \/ NetDown
    \/ GoroutineStart
    \/ ScenarioStart
    \/ ScenarioEvent
    \/ ScenarioEnd
    \/ FunctionCallOpen
    \/ FunctionCallDelta
    \/ FunctionCallClose

SpecFunctionCall == InitFunctionCall /\ [][NextFunctionCall]_vars

\* SafeWebSocket.WriteMessage step by step, called by the goroutines of
\* Writers at any time, MaxWrites calls in all.
MutexConfigs ==
    { Config(FALSE, <<>>, TRUE, <<MessageEvent(0, TextAB)>>,
             MockConfig(0, "mock_audio.wav", 2), SmallWav, {BinaryFrame}) }

InitMutex == InitWith(MutexConfigs, 1)

NextMutex ==
    \E g \in Writers :
        \/ WriteCall(g)
        \/ MuLock(g)
        \/ ConnWriteHead(g)
        \/ ConnWritePayload(g)
        \/ MuUnlock(g)

SpecMutex == InitMutex /\ [][NextMutex]_vars

\* The choice between replay and scenarios: every request out of a few
\* scenario and replaySession names, against a few scenario lists (names
\* unique and not empty, at least one scenario: validateConfig) and every
\* set of recordings, behind a client that sends one binary frame.
ScenarioA == ScenarioDef("A", <<UserTranscriptionEvent(0, TextA)>>)
ScenarioB == ScenarioDef("B", <<MessageEvent(0, <<>>)>>)

ScenarioLists == { <<ScenarioA>>, <<ScenarioA, ScenarioB>>, <<ScenarioB, ScenarioA>> }

ScenarioParams == {"", "A", "B", "X"}

ReplayParams == {"", "s1", "s1.ndjson", "s2"}

RecordingFiles == {"s1", "s1.ndjson"}

\* The lines of the recording at a path.
RecordingAt(path) ==
    IF path = "s1" THEN <<EventLine(RecT, "p1")>>
    ELSE <<EventLine(RecT, "p2"), EventLine(RecT + 50, "p1")>>

\* The session handleMockWebSocket sets up for a request: Config's fields,
\* and the request and what it was resolved against.
SessionFor(scenarioName, replaySessionName, scenarios, files, opens) ==
    LET sel == SelectRun(scenarioName, replaySessionName, scenarios, files)
    IN  [ scenarioName |-> scenarioName,
          replaySessionName |-> replaySessionName,
          Scenarios |-> scenarios,
          files |-> files,
          upgrades |-> sel.upgrades,
          replayFilePath |-> sel.replayFilePath,
          selected |-> sel.selectedScenario ]
        @@ Config(sel.isReplay,
                  IF sel.isReplay THEN RecordingAt(sel.replayFilePath) ELSE <<>>,
                  opens, sel.selectedScenario.Events, MockConfig(0, "", 2), NoWav,
                  {BinaryFrame})

SelectConfigs ==
    { c \in { SessionFor(sn, rn, scs, files, opens) :
                sn \in ScenarioParams, rn \in ReplayParams, scs \in ScenarioLists,
                files \in SUBSET RecordingFiles, opens \in BOOLEAN } :
        c.upgrades }

InitSelect == InitWith(SelectConfigs, 1)

NextSelect ==
    \/ SendSessionCreated
    \/ SendConversationCreated
    \/ \E f \in InFrames : ReadFrame(f)
    \/ NetDown
    \/ GoroutineStart
    \/ ReplayOpen
    \/ ReplayEOF
    \/ ReplayEvent
    \/ ReplaySend
    \/ ScenarioStart
    \/ ScenarioEvent
    \/ ScenarioEnd
    \/ MessageOpen
    \/ MessageFork
    \/ MessageWait
    \/ MessageClose
    \/ UserTranscription

SpecSelect == InitSelect /\ [][NextSelect]_vars

\* ---------------------------------------------------------------------
\* The recorder.

MaxClock == 2
MaxRecords == 2
MsPerSecond == 2

mockVars == <<sessVars, connVars, wire, bgVars, replayVars, scenVars, taskVars>>

\* time.Now().Format("2006-01-02_15-04-05"): the clock to the second.
TimestampName(t) == ToString(t \div MsPerSecond)

\* The name of a session's files: the recording_name of the request when
\* there is one, the second the session started in when there is none.
BaseName(recordingName) ==
    IF recordingName # "" THEN recordingName ELSE TimestampName(clock)

\* The file of a recorder: its prefix, its name, ".ndjson".
RecorderFileName(prefix, name) == prefix \o "_" \o name \o ".ndjson"

\* os.OpenFile(path, O_APPEND|O_CREATE|O_WRONLY): a file that is already
\* there is opened as it is, a missing one is created empty.
OpenFile(path) ==
    IF path \in DOMAIN disk THEN disk ELSE disk @@ (path :> <<>>)

\* NewRecorder for recorder r: with ok the directory and the file can be
\* made and r holds the file; without, NewRecorder returns nil and an error.
NewRecorder(r, name, ok) ==
    LET path == RecorderFileName(r[2], name)
    IN  IF ok
        THEN /\ rec' = [rec EXCEPT ![r] = OpenRecorder(path)]
             /\ disk' = OpenFile(path)
        ELSE /\ rec' = [rec EXCEPT ![r] = NilRecorder]
             /\ disk' = disk

\* The recorder goroutine g records to.
RecOf(g) == cfg.recorderOf[g]

\* r.mu can be taken.
RecMuFree_NoLock(r) == TRUE
RecMuFree(r) == rmu[r] = "none"

\* RecordMessage: r.mu.Lock()
RecLock(g) ==
    /\ rpc[g] = "lock"
    /\ RecMuFree(RecOf(g))
    /\ rmu' = [rmu EXCEPT ![RecOf(g)] = g]
    /\ rpc' = [rpc EXCEPT ![g] = "stamp"]
    /\ UNCHANGED <<cfg, mockVars, relayVars, rec, rts, disk, clock>>

\* RecordMessage: return when the file is gone or msg is not valid JSON,
\* else take the timestamp.
RecStamp(g) ==
    /\ rpc[g] = "stamp"
    /\ IF rec[RecOf(g)].file = "" \/ ~Valid(held[g].msg)
       THEN /\ rpc' = [rpc EXCEPT ![g] = "unlock"]
            /\ rts' = rts
       ELSE /\ rpc' = [rpc EXCEPT ![g] = "write"]
            /\ rts' = [rts EXCEPT ![g] = clock]
    /\ UNCHANGED <<cfg, mockVars, relayVars, rec, rmu, disk, clock>>

\* RecordMessage: json.Marshal(event), the newline, r.file.Write(line).
RecWrite(g) ==
    /\ rpc[g] = "write"
    /\ disk' = [disk EXCEPT ![rec[RecOf(g)].file] =
                   Append(@, RecordLine(rts[g], held[g].msg, g))]
    /\ rpc' = [rpc EXCEPT ![g] = "unlock"]
    /\ UNCHANGED <<cfg, mockVars, relayVars, rec, rmu, rts, clock>>

\* RecordMessage: the deferred r.mu.Unlock(), and the return to the loop.
RecUnlock(g) ==
    /\ rpc[g] = "unlock"
    /\ rmu' = [rmu EXCEPT ![RecOf(g)] = "none"]
    /\ rpc' = [rpc EXCEPT ![g] = "idle"]
    /\ lpc' = [lpc EXCEPT ![g] = IF @ = "record" THEN "write" ELSE @]
    /\ rts' = [rts EXCEPT ![g] = 0]
    /\ UNCHANGED <<cfg, mockVars, ppc, dials, held, inq, out, conn,
                   rec, disk, clock>>

\* Recorder.Close, the lock taken and given back in one step.
RecClose(r) ==
    /\ ~rec[r].nil
    /\ rec[r].file # ""
    /\ RecMuFree(r)
    /\ rec' = [rec EXCEPT ![r] = ClosedRecorder]
    /\ UNCHANGED <<cfg, mockVars, relayVars, rmu, rpc, rts, disk, clock>>

\* A millisecond passes.
Tick ==
    /\ clock < MaxClock
    /\ clock' = clock + 1
    /\ UNCHANGED <<cfg, mockVars, relayVars, rec, rmu, rpc, rts, disk>>

RecordMessage ==
    \E g \in Dirs : RecLock(g) \/ RecStamp(g) \/ RecWrite(g) \/ RecUnlock(g)

\* ---- the recorder driven by two goroutines

\* Two goroutines record: to one Recorder, or each to the inbound recorder
\* of its own session; the sessions are unnamed or share a recording_name.
RecorderConfig(recorderOf, recordingName) ==
    [recorderOf |-> recorderOf, recordingName |-> recordingName]

RecorderConfigs ==
    { RecorderConfig(ro, n) :
        ro \in { [g \in Dirs |-> inboundRecorder],
                 [g \in Dirs |-> IF g = "c2u" THEN inboundRecorder
                                 ELSE <<"s2", "inbound">>] },
        n \in {"", "demo"} }

RecordedMsgs == {CompactJSON, SpacedJSON, Malformed}

\* The lines in all the files.
RECURSIVE SumLen(_, _)
SumLen(f, D) ==
    IF D = {} THEN 0
    ELSE LET x == CHOOSE y \in D : TRUE
         IN  Len(f[x]) + SumLen(f, D \ {x})

DiskLines == SumLen(disk, DOMAIN disk)

\* A goroutine opens the recorder it is to use.
OpenRecorderCall(g) ==
    /\ rec[RecOf(g)].nil
    /\ NewRecorder(RecOf(g), BaseName(cfg.recordingName), TRUE)
    /\ UNCHANGED <<cfg, mockVars, relayVars, rmu, rpc, rts, clock>>

\* A goroutine calls RecordMessage(msg).
RecordMessageCall(g) ==
    /\ rpc[g] = "idle"
    /\ ~rec[RecOf(g)].nil
    /\ DiskLines < MaxRecords
    /\ \E msg \in RecordedMsgs :
         held' = [held EXCEPT ![g] = RelayFrame("text", msg)]
    /\ rpc' = [rpc EXCEPT ![g] = "lock"]
    /\ UNCHANGED <<cfg, mockVars, ppc, dials, lpc, inq, out, conn,
                   rec, rmu, rts, disk, clock>>

InitRecorder == InitWith(RecorderConfigs, 0)

NextRecorder ==
    \/ \E g \in Dirs : OpenRecorderCall(g)
    \/ \E g \in Dirs : RecordMessageCall(g)
    \/ RecordMessage
    \/ \E r \in Recorders : RecClose(r)
    \/ Tick

SpecRecorder == InitRecorder /\ [][NextRecorder]_vars

\* ---------------------------------------------------------------------
\* Relay mode: handleProxyWebSocket.

\* The error frame the handler writes to the client.
ErrorFrame(message) == RelayFrame("text", <<"{", "error", ":", message, "}">>)

\* A connection can be read and written.
Up(s) == ~conn[s].closed /\ ~conn[s].gone

\* conn.WriteMessage(msgType, msg) on connection s by goroutine by.
ConnWrite(s, f, by) ==
    [out EXCEPT ![s] = Append(@, [frame |-> f, ok |-> Up(s), by |-> by])]

\* What the handler does after it has written an error frame: return.
AfterFatalError_GoOn == "recIn"
AfterFatalError == "return"

\* What the handler does after NewRecorder has failed: log, and go on.
OnRecorderError_Fatal(next) == "return"
OnRecorderError(next) == next

\* os.Getenv("OPENAI_API_KEY") and the test of it.
ProxyKey ==
    /\ ppc = "key"
    /\ IF cfg.apiKey
       THEN /\ ppc' = "dial"
            /\ out' = out
       ELSE /\ ppc' = AfterFatalError
            /\ out' = ConnWrite("client",
                          ErrorFrame("OPENAI_API_KEY not set on server"),
                          "handler")
    /\ UNCHANGED <<cfg, mockVars, dials, lpc, held, inq, conn, recVars>>

\* websocket.DefaultDialer.Dial and the test of its error.
ProxyDial ==
    /\ ppc = "dial"
    /\ dials' = dials + 1
    /\ IF cfg.dialOK
       THEN /\ ppc' = "recIn"
            /\ out' = out
       ELSE /\ ppc' = AfterFatalError
            /\ out' = ConnWrite("client",
                          ErrorFrame("Failed to connect to OpenAI"), "handler")
    /\ UNCHANGED <<cfg, mockVars, lpc, held, inq, conn, recVars>>

\* One of the two recorders is set up, when the configuration asks for it.
ProxyRecorder(at, r, wanted, next) ==
    /\ ppc = at
    /\ IF wanted
       THEN /\ NewRecorder(r, BaseName(cfg.recordingName), cfg.opens[r[2]])
            /\ ppc' = IF cfg.opens[r[2]] THEN next ELSE OnRecorderError(next)
       ELSE /\ ppc' = next
            /\ UNCHANGED <<rec, disk>>
    /\ UNCHANGED <<cfg, mockVars, dials, lpc, held, inq, out, conn,
                   rmu, rpc, rts, clock>>

ProxyInboundRecorder ==
    ProxyRecorder("recIn", inboundRecorder, cfg.LogInbound, "recOut")

ProxyOutboundRecorder ==
    ProxyRecorder("recOut", outboundRecorder, cfg.LogOutbound, "start")

\* wg.Add(2) and the two go statements.
ProxyStart ==
    /\ ppc = "start"
    /\ lpc' = [d \in Dirs |-> "read"]
    /\ ppc' = "wait"
    /\ UNCHANGED <<cfg, mockVars, dials, held, inq, out, conn, recVars>>

\* ---- the forwarding loops

\* The recorder of a loop is set (non-nil).
HasRecorder(d) == ~rec[RecOf(d)].nil

\* A loop's read fails: it closes the other connection and leaves.
ClosePeer_Forgotten(d) == conn
ClosePeer(d) == [conn EXCEPT ![Target(d)].closed = TRUE]

LoopReadError(d) ==
    /\ lpc[d] = "read"
    /\ ~Up(Source(d))
    /\ conn' = ClosePeer(d)
    /\ lpc' = [lpc EXCEPT ![d] = "done"]
    /\ UNCHANGED <<cfg, mockVars, ppc, dials, held, inq, out, recVars>>

\* A loop reads a message; a text message goes to the loop's recorder when
\* there is one, and then, as every other message at once, to the write.
LoopReadFrame(d) ==
    /\ lpc[d] = "read"
    /\ Up(Source(d))
    /\ inq[Source(d)] # <<>>
    /\ held' = [held EXCEPT ![d] = Head(inq[Source(d)])]
    /\ inq' = [inq EXCEPT ![Source(d)] = Tail(@)]
    /\ IF HasRecorder(d) /\ Head(inq[Source(d)]).mt = "text"
       THEN /\ lpc' = [lpc EXCEPT ![d] = "record"]
            /\ rpc' = [rpc EXCEPT ![d] = "lock"]
       ELSE /\ lpc' = [lpc EXCEPT ![d] = "write"]
            /\ rpc' = rpc
    /\ UNCHANGED <<cfg, mockVars, ppc, dials, out, conn,
                   rec, rmu, rts, disk, clock>>

\* The message as the loop hands it to WriteMessage.
Forwarded_AsText(m) == [m EXCEPT !.mt = "text"]
Forwarded(m) == m

\* A loop writes the message to the other side, and leaves if that fails.
LoopWrite(d) ==
    /\ lpc[d] = "write"
    /\ out' = ConnWrite(Target(d), Forwarded(held[d]), d)
    /\ held' = [held EXCEPT ![d] = NoMsg]
    /\ lpc' = [lpc EXCEPT ![d] = IF Up(Target(d)) THEN "read" ELSE "done"]
    /\ UNCHANGED <<cfg, mockVars, ppc, dials, inq, conn, recVars>>

\* wg.Wait() returns: "Proxy: Session ended".
ProxyWait ==
    /\ ppc = "wait"
    /\ \A d \in Dirs : lpc[d] = "done"
    /\ ppc' = "return"
    /\ UNCHANGED <<cfg, mockVars, dials, lpc, held, inq, out, conn, recVars>>

\* A variant of ProxyReturn that closes the two connections and leaves the
\* recorders open.
ProxyReturn_RecordersOpen ==
    /\ ppc = "return"
    /\ ppc' = "returned"
    /\ conn' = [s \in Sides |->
                 IF s = "client" \/ (dials > 0 /\ cfg.dialOK)
                 THEN [conn[s] EXCEPT !.closed = TRUE] ELSE conn[s]]
    /\ UNCHANGED <<cfg, mockVars, dials, lpc, held, inq, out, recVars>>

\* The handler returns and its deferred calls run: the recorders that were
\* opened are closed, the upstream connection if it was dialled, the client.
ProxyReturn ==
    /\ ppc = "return"
    /\ ppc' = "returned"
    /\ rec' = [r \in Recorders |->
                 IF rec[r].nil THEN rec[r] ELSE ClosedRecorder]
    /\ conn' = [s \in Sides |->
                 IF s = "client" \/ (dials > 0 /\ cfg.dialOK)
                 THEN [conn[s] EXCEPT !.closed = TRUE] ELSE conn[s]]
    /\ UNCHANGED <<cfg, mockVars, dials, lpc, held, inq, out,
                   rmu, rpc, rts, disk, clock>>

\* A peer goes away, or the network under a connection fails.
PeerGone(s) ==
    /\ ppc \notin {"off", "returned"}
    /\ ~conn[s].gone
    /\ conn' = [conn EXCEPT ![s].gone = TRUE]
    /\ UNCHANGED <<cfg, mockVars, ppc, dials, lpc, held, inq, out, recVars>>

Loop(d) ==
    \/ LoopReadError(d)
    \/ LoopReadFrame(d)
    \/ RecLock(d) \/ RecStamp(d) \/ RecWrite(d) \/ RecUnlock(d)
    \/ LoopWrite(d)

ProxyHandler ==
    \/ ProxyKey
    \/ ProxyDial
    \/ ProxyInboundRecorder
    \/ ProxyOutboundRecorder
    \/ ProxyStart
    \/ ProxyWait
    \/ ProxyReturn

\* ---- relay sessions

MaxClientFrames == 2

RelayConfig(apiKey, dialOK, logIn, logOut, opens, input) ==
    [apiKey |-> apiKey, dialOK |-> dialOK,
     LogInbound |-> logIn, LogOutbound |-> logOut, opens |-> opens,
     recordingName |-> "",
     recorderOf |-> [d \in Dirs |-> IF d = "c2u" THEN inboundRecorder
                                    ELSE outboundRecorder],
     input |-> input]

\* What the two peers send.
ClientFrames ==
    {RelayFrame("text", SpacedJSON), RelayFrame("text", Malformed),
     RelayFrame("binary", CompactJSON)}
UpstreamInputs ==
    {<<>>, <<RelayFrame("text", HtmlJSON)>>, <<RelayFrame("binary", Malformed)>>}

RelayInputs ==
    { [s \in Sides |-> IF s = "client" THEN c ELSE u] :
        c \in SeqsUpTo(ClientFrames, MaxClientFrames),
        u \in UpstreamInputs }

\* logInbound, logOutbound, and whether each file can be made.
RecorderSetups ==
    { <<FALSE, FALSE, TRUE, TRUE>>, <<TRUE, TRUE, TRUE, TRUE>>,
      <<TRUE, TRUE, FALSE, TRUE>>, <<TRUE, TRUE, TRUE, FALSE>> }

Opens(inOK, outOK) == [p \in Prefixes |-> IF p = "inbound" THEN inOK ELSE outOK]

RelayConfigs ==
    { RelayConfig(TRUE, TRUE, r[1], r[2], Opens(r[3], r[4]), i) :
        r \in RecorderSetups, i \in RelayInputs }
    \cup
    { RelayConfig(k, d, TRUE, TRUE, Opens(TRUE, TRUE),
                  [s \in Sides |-> <<RelayFrame("text", SpacedJSON)>>]) :
        k \in BOOLEAN, d \in BOOLEAN }

\* The state when the client's connection has been upgraded.
InitRelay ==
    /\ cfg \in RelayConfigs
    /\ MockIdle(0)
    /\ ppc = "key"
    /\ dials = 0
    /\ lpc = [d \in Dirs |-> "off"]
    /\ held = [d \in Dirs |-> NoMsg]
    /\ inq = cfg.input
    /\ out = [s \in Sides |-> <<>>]
    /\ conn = [s \in Sides |-> ConnUp]
    /\ rec = [r \in Recorders |-> NilRecorder]
    /\ rmu = [r \in Recorders |-> "none"]
    /\ rpc = [g \in Dirs |-> "idle"]
    /\ rts = [g \in Dirs |-> 0]
    /\ disk = <<>>
    /\ clock = 0

NextRelay ==
    \/ ProxyHandler
    \/ \E d \in Dirs : Loop(d)
    \/ \E s \in Sides : PeerGone(s)

SpecRelay == InitRelay /\ [][NextRelay]_vars

\* The goroutines are scheduled: the handler and each loop take the steps
\* they can take.  Nothing is asked of the peers.
RelayFairness ==
    /\ WF_vars(ProxyHandler)
    /\ \A d \in Dirs : WF_vars(Loop(d))

SpecRelayFair == SpecRelay /\ RelayFairness

\* ---------------------------------------------------------------------
\* Loading the configuration: validateConfig.

MaxScenarios == 2

EventTypes == {"message", "function_call", "user_transcription"}

\* The checks of one event; "" is no error.
ValidateEvent_AnyEvent(e) == ""
ValidateEvent(e) ==
    IF e.Type \notin EventTypes THEN "unknown type"
    ELSE IF e.Type = "function_call"
            /\ (e.FunctionCall.nil \/ e.FunctionCall.Name = "")
         THEN "missing function name"
         ELSE ""

\* The first error among the events from the i-th on.
RECURSIVE ValidateEvents(_, _)
ValidateEvents(events, i) ==
    IF i > Len(events) THEN ""
    ELSE IF ValidateEvent(events[i]) # "" THEN ValidateEvent(events[i])
    ELSE ValidateEvents(events, i + 1)

\* The loop over cfg.Scenarios from the i-th on, with the names seen so far.
RECURSIVE ValidateScenarios(_, _, _)
ValidateScenarios(scenarios, i, scenarioNames) ==
    IF i > Len(scenarios) THEN ""
    ELSE IF scenarios[i].Name = "" THEN "empty name"
    ELSE IF scenarios[i].Name \in scenarioNames THEN "duplicate scenario name"
    ELSE IF ValidateEvents(scenarios[i].Events, 1) # ""
         THEN ValidateEvents(scenarios[i].Events, 1)
    ELSE ValidateScenarios(scenarios, i + 1,
                           scenarioNames \cup {scenarios[i].Name})

\* validateConfig: the error it returns, "" for nil.
validateConfig(c) ==
    IF Len(c.Scenarios) = 0 /\ c.Mode = "mock" THEN "no scenarios"
    ELSE ValidateScenarios(c.Scenarios, 1, {})

\* initConfig: a configuration that fails validation ends the process
\* (log.Fatalf); with a valid one the server starts and takes sessions.
LoadConfiguration ==
    /\ hpc = "load"
    /\ hpc' = IF validateConfig(cfg) = "" THEN "select" ELSE "fatal"
    /\ UNCHANGED <<cfg, proxyVars, audioReceived, onceDone, lastRead, nQual,
                   readBudget, connVars, wire, bgVars, replayVars, scenVars,
                   taskVars>>

\* A request reaches handleMockWebSocket, which resolves it (SelectRun): it
\* goes on to upgrade the connection, or logs "No scenarios available to
\* run." and returns.
HandlerSelect ==
    /\ hpc = "select"
    /\ hpc' = IF cfg.upgrades THEN "sendSession" ELSE "notUpgraded"
    /\ UNCHANGED <<cfg, proxyVars, audioReceived, onceDone, lastRead, nQual,
                   readBudget, connVars, wire, bgVars, replayVars, scenVars,
                   taskVars>>

\* Events as a configuration file may hold them: the three kinds, a type
\* that is none of them, a function_call with no function and one with an
\* unnamed function.
UnknownEvent == [MessageEvent(0, <<>>) EXCEPT !.Type = "audio"]
BareFunctionCall ==
    [FunctionCallEvent(0, "f", <<>>) EXCEPT !.FunctionCall = NoFunctionCall]

CandidateEvents ==
    { MessageEvent(0, <<>>), FunctionCallEvent(0, "f", ArgString(1)),
      UserTranscriptionEvent(0, TextA), UnknownEvent, BareFunctionCall,
      FunctionCallEvent(0, "", ArgString(1)) }

CandidateScenarios ==
    { ScenarioDef(n, ev) :
        n \in {"", "A", "B"},
        ev \in {<<>>} \cup { <<e>> : e \in CandidateEvents }
               \cup { <<UserTranscriptionEvent(0, TextA), e>> :
                        e \in {UnknownEvent, BareFunctionCall} } }

\* A configuration file in mock mode, and a request for a scenario.
LoadConfigs ==
    { [Mode |-> "mock"] @@ SessionFor(sn, "", scs, {}, TRUE) :
        sn \in {"", "B"}, scs \in SeqsUpTo(CandidateScenarios, MaxScenarios) }

InitLoad ==
    /\ cfg \in LoadConfigs
    /\ ProxyOff
    /\ MockAt("load", 1)

NextLoad ==
    \/ LoadConfiguration
    \/ HandlerSelect
    \/ SendSessionCreated
    \/ SendConversationCreated
    \/ \E f \in InFrames : ReadFrame(f)
    \/ NetDown
    \/ GoroutineStart
    \/ ScenarioStart
    \/ ScenarioEvent
    \/ ScenarioEnd
    \/ MessageOpen
    \/ MessageFork
    \/ MessageWait
    \/ MessageClose
    \/ FunctionCallOpen
    \/ FunctionCallDelta
    \/ FunctionCallClose
    \/ UserTranscription

SpecLoad == InitLoad /\ [][NextLoad]_vars

\* ---------------------------------------------------------------------
\* A server from its configuration to the end of a session: any mode that
\* handleWebSocket gives to handleMockWebSocket, a scenario list that may be
\* empty, requests with and without a scenario and a replaySession name.

ServeModes == {"mock", ""}

ServeConfigs ==
    { [Mode |-> mode] @@ SessionFor(sn, rn, scs, files, TRUE) :
        mode \in ServeModes, sn \in {"", "A"}, rn \in {"", "s1", "s2"},
        scs \in {<<>>, <<ScenarioA>>, <<ScenarioB, ScenarioA>>},
        files \in SUBSET RecordingFiles }

InitServe ==
    /\ cfg \in ServeConfigs
    /\ ProxyOff
    /\ MockAt("load", 1)

NextServe ==
    \/ LoadConfiguration
    \/ HandlerSelect
    \/ ReadError
    \/ HandlerReturn
    \/ NextSelect

SpecServe == InitServe /\ [][NextServe]_vars

\* ---------------------------------------------------------------------
\* Event ids.

\* uuid.NewString(), called where the frame of the n-th entry of the history
\* is built: a value no other call returns.
NewString_Fixed(n) == "uuid-0"
NewString(n) == "uuid-" \o ToString(n)

\* The event_id inside a recorded payload: "p1" is an event recorded with
\* the id evt_1, "p2" one recorded without an event_id.
RecordedEventId(d) == IF d = "p1" THEN "evt_1" ELSE ""

\* The event_id of the frame of the i-th entry of the history: every frame
\* the engine builds has "event_id": uuid.NewString() among its fields; a
\* replayed frame is event.Data as it was read.
EventId(i) ==
    IF wire[i].frame.type = "<recorded>"
    THEN RecordedEventId(wire[i].frame.data)
    ELSE NewString(i)

\* ---------------------------------------------------------------------
\* The end-to-end scenario: one message, "hi there", two chunks of audio.

\* The default of audioChunkSizeBytes.
defaultAudioChunkSizeBytes == 4096

HiThere == <<"h", "i", " ", "t", "h", "e", "r", "e">>

\* Scenario "default": one message after 100 ms; a source of two chunks of
\* PCM data behind its header; any one frame from the client.
EndToEndConfigs ==
    { Config(FALSE, <<>>, TRUE, <<MessageEvent(100, HiThere)>>,
             MockConfig(0, "mock_audio.wav", defaultAudioChunkSizeBytes),
             WavFile(TRUE, wavHeaderBytes + 2 * defaultAudioChunkSizeBytes),
             InFrames) }

InitEndToEnd == InitWith(EndToEndConfigs, 1)

SpecEndToEnd == InitEndToEnd /\ [][NextTranscript]_vars

\* runReplay with a scheduler that lets the goroutine run.
ReplayFairness == WF_vars(GoroutineStart) /\ WF_vars(Replay)

SpecReplayFair == SpecReplay /\ ReplayFairness

\* runScenario with a scheduler that lets its goroutines run.
ScenarioFairness == WF_vars(GoroutineStart) /\ WF_vars(Scenario)

SpecScenarioFair == SpecScenario /\ ScenarioFairness

\* ---------------------------------------------------------------------
\* Audio sources of every small size, read in chunks of every small size.

MaxAudioBytes == 4
MaxChunkBytes == 3

\* The sources: a missing file, a file shorter than its header, files with
\* no data and with some.
AudioSources ==
    {NoWav, WavFile(TRUE, wavHeaderBytes - 1)}
    \cup { WavFile(TRUE, wavHeaderBytes + n) : n \in 0..MaxAudioBytes }

\* A message with or without text, and an event after it.
AudioConfigs ==
    { Config(FALSE, <<>>, TRUE,
             <<MessageEvent(0, text), UserTranscriptionEvent(0, TextA)>>,
             MockConfig(0, "mock_audio.wav", chunk), wav, {BinaryFrame}) :
        text \in {<<>>, TextAB}, chunk \in 1..MaxChunkBytes, wav \in AudioSources }

InitAudio == InitWith(AudioConfigs, 1)

NextAudio ==
    \/ NextTranscript
    \/ UserTranscription

SpecAudio == InitAudio /\ [][NextAudio]_vars

\* ------------------------------------------------------------- properties

TriggerTypes == {"input_audio_buffer.append", "response.create"}

\* The frame is one of those the session is to fire on.
Qualifying(f) ==
    \/ f.mt = "binary"
    \/ f.mt = "text" /\ f.json /\ f.type \in TriggerTypes

\* The history's entries made by function fn.
EntriesBy(fn) == SelectSeq(wire, LAMBDA e : e.by = fn)

\* C1: the background run is started at most once per session, and exactly
\* once as soon as a qualifying frame has been read, however many qualifying
\* frames are read: one goroutine is spawned, and runReplay or runScenario
\* is called at most once, by that goroutine.
C1_TriggerOnce ==
    /\ spawned <= 1
    /\ started <= spawned
    /\ (nQual >= 1) <=> (spawned = 1)
    /\ (bpc \notin {"idle", "spawned", "run"}) => started = 1

\* Three qualifying frames were read, the last one after the run ended, and
\* there was one run.
C1_Witness ==
    /\ nQual = MaxFrames
    /\ readBudget = 0
    /\ bpc = "done"
    /\ started = 1
    /\ spawned = 1

\* C2: the session leaves AwaitingTrigger (the latch audioReceived is set)
\* only in a step that reads a binary frame or a JSON text frame of type
\* input_audio_buffer.append or response.create; a step that reads any other
\* text frame leaves the latch, the background goroutine and the history as
\* they were; and while the session awaits its trigger nothing is spawned
\* and nothing but the welcome events was written.
C2_OnlyTriggersFire ==
    /\ [](~audioReceived =>
            /\ spawned = 0
            /\ bpc = "idle"
            /\ \A i \in 1..Len(wire) : wire[i].by = "handleMockWebSocket")
    /\ [][ /\ (~audioReceived /\ audioReceived') =>
                (readBudget' = readBudget - 1 /\ Qualifying(lastRead'))
           /\ (readBudget' = readBudget - 1 /\ ~Qualifying(lastRead')) =>
                (/\ audioReceived' = audioReceived
                 /\ onceDone' = onceDone
                 /\ wire' = wire
                 /\ <<spawned, started, trigKind, bpc>>' = <<spawned, started, trigKind, bpc>>)
         ]_vars

\* Every frame the client sent was a text frame that does not qualify, the
\* last one not JSON, and the session still awaits its trigger.
C2_Witness ==
    /\ readBudget = 0
    /\ lastRead = NonJSONText
    /\ nQual = 0
    /\ ~audioReceived
    /\ hpc = "read"
    /\ Len(wire) = 2

\* C3: the first two writes of a session are session.created and then
\* conversation.created; the read loop is entered, a frame read and a
\* background run spawned only after both were delivered, so that they
\* precede every frame of a scenario or a replay; and when one of the two
\* sends fails the handler returns: nothing is read, nothing is spawned and
\* nothing more is written.
C3_WelcomeFirst ==
    LET a == Attempts(wire)
        welcomed == Len(a) >= 2 /\ a[1].ok /\ a[2].ok
    IN  /\ Len(a) >= 1 => a[1].frame = SessionCreated /\ a[1].by = "handleMockWebSocket"
        /\ Len(a) >= 2 => /\ a[2].frame = ConversationCreated
                          /\ a[2].by = "handleMockWebSocket"
                          /\ a[1].ok
        /\ Len(a) >= 3 => welcomed
        /\ (hpc = "read" \/ lastRead # NoFrame \/ spawned > 0 \/ bpc # "idle") => welcomed
        /\ (hpc \in {"exit", "returned"} /\ ~welcomed) =>
              (lastRead = NoFrame /\ nQual = 0 /\ spawned = 0 /\ bpc = "idle")

\* A scenario frame was delivered, as the third frame of the session.
C3_Witness ==
    LET d == Delivered(wire)
    IN  /\ Len(d) >= 3
        /\ d[1] = SessionCreated
        /\ d[2] = ConversationCreated
        /\ d[3].type = "response.created"

\* ---- runReplay

\* The lines of the recording.
File == cfg.replayFile

\* runReplay ran to its end on a file it could open.
ReplayDone == cfg.isReplay /\ cfg.replayOpens /\ started = 1 /\ bpc = "done"

\* Every write runReplay attempted was delivered.
ReplaySendsOK == \A i \in 1..Len(wire) : wire[i].by = "runReplay" => wire[i].ok

\* The payloads runReplay delivered, in order.
ReplayedPayloads ==
    LET sent == SelectSeq(wire, LAMBDA e : e.by = "runReplay" /\ e.op = "send" /\ e.ok)
    IN  [i \in 1..Len(sent) |-> sent[i].frame.data]

\* The data fields of lines, in order.
DataOf(lines) == [i \in 1..Len(lines) |-> lines[i].data]

\* The line is a well-formed RecordedEvent.
WellFormed(line) == line.kind = "event"

\* C4, as stated: for a recording whose lines are all well-formed
\* RecordedEvents, and with every send succeeding, the payloads runReplay
\* emits are the data fields of the lines, in order.
C4_AsStated ==
    (ReplayDone /\ ReplaySendsOK /\ \A i \in 1..Len(File) : WellFormed(File[i]))
        => ReplayedPayloads = DataOf(File)

\* C4 on recordings the scanner can read: the same for a recording whose
\* lines are all well-formed RecordedEvents that fit the scanner's buffer
\* (maxCapacity, 10 MiB); and
\* while runReplay runs, what it has emitted is the data of the lines it has
\* passed.
C4_RoundTrip ==
    (/\ cfg.isReplay /\ cfg.replayOpens /\ started = 1
     /\ ReplaySendsOK
     /\ \A i \in 1..Len(File) : WellFormed(File[i]) /\ ~File[i].long)
        => /\ ReplayedPayloads = DataOf(SubSeq(File, 1, lineIdx - 1))
           /\ bpc = "done" => ReplayedPayloads = DataOf(File)

\* A recording of three events with payloads p1, p2, p1 was replayed whole.
C4_Witness ==
    /\ ReplayDone
    /\ ReplaySendsOK
    /\ Len(File) = 3
    /\ \A i \in 1..Len(File) : WellFormed(File[i]) /\ ~File[i].long
    /\ ReplayedPayloads = <<"p1", "p2", "p1">>

\* The delay taken before each write of ops: the sleeps since the write
\* before it, added up.
RECURSIVE DelaysFrom(_, _)
DelaysFrom(ops, acc) ==
    IF ops = <<>> THEN <<>>
    ELSE IF Head(ops).op = "sleep"
         THEN DelaysFrom(Tail(ops), acc + Head(ops).ms)
         ELSE <<acc>> \o DelaysFrom(Tail(ops), 0)

\* The records runReplay has parsed: the well-formed lines among those the
\* scanner has passed, and the one about to be sent.
ParsedSoFar ==
    LET upTo == IF bpc = "rSend" THEN lineIdx ELSE lineIdx - 1
    IN  SelectSeq(SubSeq(File, 1, upTo), WellFormed)

\* C5: the delay runReplay takes before sending the first record is zero,
\* and before every later record it is max(0, its timestamp minus the
\* timestamp of the record before it) milliseconds; a recording with the
\* timestamps T, T+50, T+120 is replayed with the delays 0, 50, 70.
C5_ReplayDelays ==
    LET delays == DelaysFrom(EntriesBy("runReplay"), 0)
        recs == ParsedSoFar
    IN  /\ cfg.isReplay /\ started = 1 /\ cfg.replayOpens =>
            /\ Len(delays) <= Len(recs)
            /\ \A k \in 1..Len(delays) :
                  delays[k] = IF k = 1 THEN 0
                              ELSE Max(0, recs[k].ts - recs[k - 1].ts)
        /\ (/\ ReplayDone /\ ReplaySendsOK
            /\ Len(File) = 3
            /\ \A i \in 1..3 : WellFormed(File[i]) /\ ~File[i].long
            /\ <<File[1].ts, File[2].ts, File[3].ts>> = <<RecT, RecT + 50, RecT + 120>>)
               => delays = <<0, 50, 70>>

\* The recording with the timestamps T, T+50, T+120 was replayed whole, with
\* the delays 0, 50, 70.
C5_Witness ==
    /\ ReplayDone
    /\ ReplaySendsOK
    /\ Len(File) = 3
    /\ \A i \in 1..3 : WellFormed(File[i]) /\ ~File[i].long
    /\ <<File[1].ts, File[2].ts, File[3].ts>> = <<RecT, RecT + 50, RecT + 120>>
    /\ DelaysFrom(EntriesBy("runReplay"), 0) = <<0, 50, 70>>
    /\ Len(ReplayedPayloads) = 3

\* The line cannot be parsed as a RecordedEvent.
Unparsable(line) == ~line.long /\ line.kind = "corrupt"

\* C6: a line that cannot be parsed is skipped and does not end the replay:
\* as long as no send has failed, what runReplay has emitted is the data of
\* the well-formed lines among the lines it has passed, unparsable lines
\* among them, in order; and a replay that ended without a failed send and
\* without a scanner error has passed every line of the file.
C6_CorruptLineSkipped ==
    (cfg.isReplay /\ cfg.replayOpens /\ started = 1 /\ ReplaySendsOK) =>
        /\ ReplayedPayloads =
              DataOf(SelectSeq(SubSeq(File, 1, lineIdx - 1), WellFormed))
        /\ (bpc = "done" /\ \A i \in 1..Len(File) : ~File[i].long)
              => lineIdx = Len(File) + 1

\* A recording of an event, an unparsable line and an event was replayed to
\* its end: both events were emitted.
C6_Witness ==
    /\ ReplayDone
    /\ ReplaySendsOK
    /\ Len(File) = 3
    /\ WellFormed(File[1]) /\ ~File[1].long
    /\ Unparsable(File[2])
    /\ WellFormed(File[3]) /\ ~File[3].long
    /\ ReplayedPayloads = <<File[1].data, File[3].data>>
    /\ File[1].data # File[3].data

\* C7: a failed send ends runReplay at once: the failed write is the last
\* thing runReplay does to the connection or the clock (no later write is
\* attempted and no later sleep is taken) and runReplay has returned.
C7_SendFailureStopsReplay ==
    LET ops == EntriesBy("runReplay")
    IN  \A i \in 1..Len(ops) :
           (ops[i].op = "send" /\ ~ops[i].ok) => (i = Len(ops) /\ bpc = "done")

\* A send of runReplay failed while the file still held a record to send.
C7_Witness ==
    LET ops == EntriesBy("runReplay")
    IN  /\ Len(ops) > 0
        /\ ops[Len(ops)].op = "send"
        /\ ~ops[Len(ops)].ok
        /\ bpc = "done"
        /\ lineIdx <= Len(File)
        /\ WellFormed(File[lineIdx]) /\ ~File[lineIdx].long

\* ---- runScenario

\* The function that handles an event of type t.
HandlerOf(t) ==
    CASE t = "message" -> {"streamMessageResponse", "streamAudio", "streamTranscript"}
      [] t = "function_call" -> {"sendFunctionCall"}
      [] t = "user_transcription" -> {"sendUserTranscription"}
      [] OTHER -> {}

\* C8: runScenario executes the events in list order and one at a time: in
\* the history the events' entries (writes of the handlers and of their
\* sub-streams, and the events' delays) come in blocks, in the order of the
\* scenario, each made by the handler of its event's type and none skipped;
\* and between two events no sub-stream is running.
C8_EventsSequential ==
    /\ \A i, j \in 1..Len(wire) : i < j => wire[i].ev <= wire[j].ev
    /\ \A i \in 1..Len(wire) :
          wire[i].ev > 0 =>
             /\ wire[i].ev <= Len(cfg.selectedScenario)
             /\ wire[i].by \in HandlerOf(cfg.selectedScenario[wire[i].ev].Type)
                                  \cup {"runScenario"}
    /\ (started = 1 /\ ~cfg.isReplay) =>
          \A k \in 1..(evIdx - 1) :
             \E i \in 1..Len(wire) : wire[i].ev = k /\ wire[i].op = "send"
    /\ bpc \in {"sLoop", "done", "mOpen", "mFork", "fOpen", "fDelta", "fClose", "uSeq"}
          => apc \in {"off", "done"} /\ tpc \in {"off", "done"}

\* A message event with both sub-streams and then a user transcription with
\* a delay were executed, every frame delivered.
C8_Witness ==
    /\ cfg.selectedScenario = <<MessageEvent(100, TextAB), UserTranscriptionEvent(100, TextA)>>
    /\ cfg.wav = SmallWav
    /\ bpc = "done"
    /\ \A i \in 1..Len(wire) : wire[i].ok
    /\ \E i, j \in 1..Len(wire) :
          /\ i < j
          /\ wire[i].by = "streamAudio" /\ wire[i].ev = 1
          /\ wire[j] = SleepEntry(100, 2, "runScenario")

SubStreams == {"streamAudio", "streamTranscript"}

ClosingTypes ==
    {"response.content_part.done", "response.output_item.done", "response.done"}

\* C9: within a message event every write of the audio and of the
\* transcript sub-stream (deltas and done markers) comes after the delivery
\* of response.content_part.added and before the closing sequence, which is
\* written only when both sub-streams have returned.
C9_SubStreamsBracketed ==
    /\ \A i \in 1..Len(wire) :
          wire[i].by \in SubStreams =>
             /\ \E j \in 1..(i - 1) :
                   /\ wire[j].ev = wire[i].ev
                   /\ wire[j].ok
                   /\ wire[j].frame.type = "response.content_part.added"
             /\ \A j \in 1..(i - 1) :
                   wire[j].ev = wire[i].ev => wire[j].frame.type \notin ClosingTypes
    /\ bpc = "mClose" => apc \in {"off", "done"} /\ tpc \in {"off", "done"}

\* Entry i of the history is a delta of sub-stream fn for event k.
DeltaAt(i, fn, k) ==
    /\ wire[i].by = fn
    /\ wire[i].ev = k
    /\ wire[i].frame.type \in {"response.audio.delta", "response.audio_transcript.delta"}

\* Both orders of the deltas happened: in the first message event an audio
\* delta before a transcript delta, in the second a transcript delta before
\* an audio delta; both events were closed.
C9_Witness ==
    /\ bpc = "done"
    /\ \A i \in 1..Len(wire) : wire[i].ok
    /\ \E i, j \in 1..Len(wire) :
          i < j /\ DeltaAt(i, "streamAudio", 1) /\ DeltaAt(j, "streamTranscript", 1)
    /\ \E i, j \in 1..Len(wire) :
          i < j /\ DeltaAt(i, "streamTranscript", 2) /\ DeltaAt(j, "streamAudio", 2)
    /\ \E i \in 1..Len(wire) : wire[i].ev = 2 /\ wire[i].frame.type = "response.done"

\* ---- streamTranscript

\* The transcript deltas delivered, in order, and their concatenation.
TranscriptDeltas ==
    LET sent == SelectSeq(wire, LAMBDA e :
                    e.op = "send" /\ e.ok
                    /\ e.frame.type = "response.audio_transcript.delta")
    IN  [i \in 1..Len(sent) |-> sent[i].frame.delta]

\* The scripted text of the (only) event.
ScriptedText == cfg.selectedScenario[1].Text

\* s with every run of whitespace replaced by one space, without leading
\* whitespace, and with one space after its last word; inWord: the
\* character before s was a letter.
RECURSIVE Collapse(_, _)
Collapse(s, inWord) ==
    IF s = <<>>
    THEN IF inWord THEN <<" ">> ELSE <<>>
    ELSE IF IsSpace(Head(s))
         THEN (IF inWord THEN <<" ">> ELSE <<>>) \o Collapse(Tail(s), FALSE)
         ELSE <<Head(s)>> \o Collapse(Tail(s), TRUE)

\* C10, as stated: for a message event with a non-empty scripted text and a
\* valid audio source, the concatenation of the transcript deltas is the
\* scripted text.
C10_AsStated ==
    (bpc = "done" /\ ScriptedText # <<>>) => Concat(TranscriptDeltas) = ScriptedText

\* C10, amended: the concatenation of the transcript deltas is the scripted
\* text with every run of whitespace replaced by a single space, leading
\* whitespace removed and a single space after the last word.
C10_TranscriptConcat ==
    bpc = "done" => Concat(TranscriptDeltas) = Collapse(ScriptedText, FALSE)

\* The text "a b" was streamed as "a " and "b ".
C10_Witness ==
    /\ bpc = "done"
    /\ ScriptedText = TextAB
    /\ TranscriptDeltas = << <<"a", " ">>, <<"b", " ">> >>

\* ---- sendFunctionCall

\* The frames of the given type delivered, in order.
DeliveredOfType(t) ==
    SelectSeq(wire, LAMBDA e : e.op = "send" /\ e.ok /\ e.frame.type = t)

\* The delta fields of the argument deltas delivered, in order.
ArgumentDeltas ==
    LET sent == DeliveredOfType("response.function_call_arguments.delta")
    IN  [i \in 1..Len(sent) |-> sent[i].frame.delta]

\* The argument string configured for the (only) event.
ScriptedArguments == cfg.selectedScenario[1].FunctionCall.Arguments

\* sendFunctionCall has returned and every write was delivered.
FunctionCallSent == bpc = "done" /\ \A i \in 1..Len(wire) : wire[i].ok

\* C11, as stated: for a function_call event with every send succeeding,
\* the delta fields of the argument deltas, concatenated in emission order,
\* are the configured argument string, and there is one arguments.done frame
\* and its arguments field is that string.
C11_AsStated ==
    FunctionCallSent =>
        /\ Concat(ArgumentDeltas) = ScriptedArguments
        /\ LET done == DeliveredOfType("response.function_call_arguments.done")
           IN  Len(done) = 1 /\ done[1].frame.arguments = ScriptedArguments

\* C11 on ASCII argument strings, of every length up to MaxArgLen.
C11_AsciiArguments ==
    (FunctionCallSent /\ \A k \in 1..Len(ScriptedArguments) : ScriptedArguments[k] < 128) =>
        /\ Concat(ArgumentDeltas) = ScriptedArguments
        /\ LET done == DeliveredOfType("response.function_call_arguments.done")
           IN  Len(done) = 1 /\ done[1].frame.arguments = ScriptedArguments

\* The place of a frame type in the sequence of sendFunctionCall.
FunctionCallRank(t) ==
    CASE t = "response.created" -> 1
      [] t = "conversation.item.created" -> 2
      [] t = "response.output_item.added" -> 3
      [] t = "response.function_call_arguments.delta" -> 4
      [] t = "response.function_call_arguments.done" -> 5
      [] t = "response.done" -> 6
      [] OTHER -> 0

\* The types of the frames sendFunctionCall wrote (delivered or not), in
\* order.
FunctionCallTypes ==
    LET sent == SelectSeq(wire, LAMBDA e : e.op = "send" /\ e.by = "sendFunctionCall")
    IN  [i \in 1..Len(sent) |-> sent[i].frame.type]

\* How many deltas an argument string of n bytes takes.
DeltaCount(n) == (n + chunkSize - 1) \div chunkSize

\* C12: the frames of a function_call event come in the order
\* response.created, conversation.item.created, response.output_item.added,
\* the argument deltas, response.function_call_arguments.done,
\* response.done: no frame of a later kind precedes one of an earlier kind,
\* only deltas repeat, no kind is skipped, and a call sent whole has one
\* delta for every chunkSize bytes begun.
C12_FunctionCallOrder ==
    LET ts == FunctionCallTypes
    IN  /\ \A i \in 1..Len(ts) : FunctionCallRank(ts[i]) > 0
        /\ Len(ts) > 0 => FunctionCallRank(ts[1]) = 1
        /\ \A i \in 1..(Len(ts) - 1) :
              LET a == FunctionCallRank(ts[i])
                  b == FunctionCallRank(ts[i + 1])
              IN  \/ b = a + 1
                  \/ a = 4 /\ b = 4
                  \/ a = 3 /\ b = 5 /\ ScriptedArguments = <<>>
        /\ FunctionCallSent =>
              /\ Len(ts) = 5 + DeltaCount(Len(ScriptedArguments))
              /\ ts[Len(ts)] = "response.done"

\* A call with an argument string of two full slices and one more byte was
\* sent whole: three deltas between the opening and the closing frames.
C12_Witness ==
    /\ FunctionCallSent
    /\ Len(ScriptedArguments) = 2 * chunkSize + 1
    /\ FunctionCallTypes =
          << "response.created", "conversation.item.created",
             "response.output_item.added",
             "response.function_call_arguments.delta",
             "response.function_call_arguments.delta",
             "response.function_call_arguments.delta",
             "response.function_call_arguments.done", "response.done" >>

\* ---- sendUserTranscription

\* The writes made for scenario event k, delivered or not, in order.
WritesOf(k) == SelectSeq(wire, LAMBDA e : e.op = "send" /\ e.ev = k)

\* The frames of a sequence of writes.
FramesOf(ws) == [i \in 1..Len(ws) |-> ws[i].frame]

\* Every write of ws but the last was delivered.
StopsAtFailure(ws) == \A i \in 1..(Len(ws) - 1) : ws[i].ok

\* The user_transcription events of the scenario that have been executed.
TranscriptionsDone ==
    { k \in 1..Len(cfg.selectedScenario) :
        /\ cfg.selectedScenario[k].Type = "user_transcription"
        /\ started = 1
        /\ k < evIdx }

\* C13: the frames of a user_transcription event are
\* input_audio_buffer.committed, conversation.item.created and
\* conversation.item.input_audio_transcription.completed, in that order, the
\* last with the scripted text as its transcript, and nothing else (no
\* response.created, no response.done): what has been written for the event
\* is the beginning of that sequence, cut after a failed write, and all of
\* it when the event is over and no write failed.
C13_UserTranscriptionFrames ==
    \A k \in 1..Len(cfg.selectedScenario) :
        cfg.selectedScenario[k].Type = "user_transcription" =>
            LET ws == WritesOf(k)
                expected ==
                    << [type |-> "input_audio_buffer.committed"],
                       [type |-> "conversation.item.created"],
                       [type |-> "conversation.item.input_audio_transcription.completed",
                        transcript |-> cfg.selectedScenario[k].Text] >>
            IN  /\ Len(ws) <= 3
                /\ FramesOf(ws) = SubSeq(expected, 1, Len(ws))
                /\ StopsAtFailure(ws)
                /\ \A i \in 1..Len(ws) : ws[i].by = "sendUserTranscription"
                /\ (k \in TranscriptionsDone /\ \A i \in 1..Len(ws) : ws[i].ok)
                      => Len(ws) = 3

\* A user_transcription event with the text "a" was executed after another
\* event and its three frames were delivered.
C13_Witness ==
    /\ Len(cfg.selectedScenario) = 2
    /\ 2 \in TranscriptionsDone
    /\ cfg.selectedScenario[2].Text = TextA
    /\ cfg.selectedScenario[1].Type = "function_call"
    /\ Len(WritesOf(2)) = 3
    /\ \A i \in 1..3 : WritesOf(2)[i].ok
    /\ WritesOf(2)[3].frame.transcript = TextA

\* ---- streamMessageResponse

\* The message events of the scenario that have neither text nor audio.
EmptyMessages ==
    { k \in 1..Len(cfg.selectedScenario) :
        /\ cfg.selectedScenario[k].Type = "message"
        /\ cfg.selectedScenario[k].Text = <<>>
        /\ cfg.Mock.AudioWavPath = "" }

\* The types streamMessageResponse itself sends, in order.
LifecycleTypes ==
    << "response.created", "response.output_item.added", "conversation.item.created",
       "response.content_part.added", "response.content_part.done",
       "response.output_item.done", "response.done" >>

\* C14: for a message event with an empty text and no audio source no
\* audio delta and no transcript delta is written (no sub-stream writes
\* anything), and the opening and closing frames of the response still are:
\* what has been written is the beginning of response.created,
\* output_item.added, conversation.item.created, content_part.added,
\* content_part.done, output_item.done, response.done, cut after a failed
\* write, and all of it when the event is over and no write failed.
C14_EmptyMessageLifecycle ==
    \A k \in EmptyMessages :
        LET ws == WritesOf(k)
        IN  /\ \A i \in 1..Len(ws) :
                  /\ ws[i].by = "streamMessageResponse"
                  /\ ws[i].frame.type \notin
                        {"response.audio.delta", "response.audio_transcript.delta"}
            /\ Len(ws) <= Len(LifecycleTypes)
            /\ \A i \in 1..Len(ws) : ws[i].frame.type = LifecycleTypes[i]
            /\ StopsAtFailure(ws)
            /\ (started = 1 /\ k < evIdx /\ \A i \in 1..Len(ws) : ws[i].ok)
                  => Len(ws) = Len(LifecycleTypes)

\* A message event without text and without audio was executed and all its
\* seven frames were delivered.
C14_Witness ==
    /\ cfg.selectedScenario = <<MessageEvent(0, <<>>)>>
    /\ 1 \in EmptyMessages
    /\ bpc = "done"
    /\ Len(WritesOf(1)) = 7
    /\ \A i \in 1..7 : WritesOf(1)[i].ok
    /\ WritesOf(1)[7].frame.type = "response.done"

\* ---- runScenario, failed sends

\* C15, as stated: a failed send inside runScenario is the last write
\* runScenario, its event handlers and their sub-streams attempt: nothing
\* more is written for that event (not by the other sub-stream, not the
\* closing sequence) and no later event is executed (no delay slept, no
\* frame written).
C15_AsStated ==
    \A i, j \in 1..Len(wire) :
        (i < j /\ wire[i].ev > 0 /\ wire[i].op = "send" /\ ~wire[i].ok)
            => wire[j].ev = 0

\* ---- SafeWebSocket

\* The goroutines inside s.Conn.WriteMessage.
InConnWrite == { g \in Writers : wpc[g] = "writing" }

\* C16: at most one goroutine is inside the underlying socket write at any
\* time, and it is the one that holds the mutex; on the socket every
\* frame's header is followed by its own payload, so no frame lies inside
\* another.
C16_OneWriter ==
    /\ Cardinality(InConnWrite) <= 1
    /\ \A g \in Writers : wpc[g] \in {"locked", "writing", "written"} => mu = g
    /\ \A i \in 1..Len(sock) :
          IF i % 2 = 1
          THEN sock[i][2] = "head"
          ELSE sock[i] = <<sock[i - 1][1], "payload">>

\* The audio task is inside the socket write while the transcript task
\* waits for the mutex, after the relay loop wrote a frame.
C16_Witness ==
    /\ wpc["streamAudio"] = "writing"
    /\ wpc["streamTranscript"] = "waiting"
    /\ Len(sock) = 3
    /\ sock[1] = <<"relay", "head">>

\* ---- the read loop and the background run

\* The background run is in flight: its goroutine has been started and has
\* not finished.
RunInFlight == bpc \notin {"idle", "done"}

\* C17: the background run never blocks the read loop: wherever the run is
\* (sleeping, streaming, waiting for its sub-streams), a handler inside the
\* read loop can read the next frame the client sends, whichever it is, and
\* can take a read error (the client's close) and leave the loop; and once
\* it has left the loop it can return and close the connection without the
\* run having finished.
C17_ReadLoopNotBlocked ==
    /\ (hpc = "read" /\ netUp /\ readBudget > 0)
          => \A f \in cfg.clientFrames : ENABLED ReadFrame(f)
    /\ hpc = "read" => ENABLED ReadError
    /\ hpc = "exit" => ENABLED HandlerReturn

\* A second qualifying frame was read after the one that started the run,
\* and the handler returned and closed the connection, all while the run was
\* still waiting for the sub-streams of a message event.
C17_Witness ==
    /\ nQual >= 2
    /\ hpc = "returned"
    /\ closed
    /\ bpc = "mWait"
    /\ apc = "tick"

\* C18: closing the session does not cancel a background run in flight
\* (the step that closes the connection leaves the run and its sub-streams
\* where they are, the connection stays closed), and every write attempted
\* once the connection is closed fails: no frame is delivered after the
\* session is closed.
C18_ClosedRunFailsFast ==
    [][ /\ (~closed /\ closed') =>
              /\ bpc' = bpc /\ apc' = apc /\ tpc' = tpc
              /\ spawned' = spawned /\ started' = started
        /\ closed => closed'
        /\ closed =>
              \A i \in (Len(wire) + 1)..Len(wire') :
                  wire'[i].op = "send" => ~wire'[i].ok ]_vars

\* The handler closed the connection before the run wrote anything, with
\* the peer still there: the run slept its response delay, and its first
\* write was attempted all the same and failed.
C18_Witness ==
    /\ closed
    /\ netUp
    /\ hpc = "returned"
    /\ started = 1
    /\ \E i \in 1..(Len(wire) - 1) :
          /\ wire[i].op = "sleep" /\ wire[i].by = "goroutine"
          /\ \A j \in (i + 1)..Len(wire) :
                wire[j].op = "send" => ~wire[j].ok
          /\ \E j \in (i + 1)..Len(wire) : wire[j].op = "send"

\* ---- replay or scenario

\* The replaySession parameter names a recording that is there, under its
\* exact name or with ".ndjson" appended; and the path of that recording
\* (the exact name first).
RecordingFound ==
    /\ cfg.replaySessionName # ""
    /\ \/ cfg.replaySessionName \in cfg.files
       \/ (cfg.replaySessionName \o ".ndjson") \in cfg.files
RecordingPath ==
    IF cfg.replaySessionName \in cfg.files
    THEN cfg.replaySessionName
    ELSE cfg.replaySessionName \o ".ndjson"

\* The goroutine of the trigger has called its run function.
RunCalled == bpc \notin {"idle", "spawned", "run"}

\* C19: what the trigger starts is exclusive and fixed when the connection
\* is made: the goroutine calls one function, once; it is runReplay, on the
\* recording found, when the replaySession parameter named a recording that
\* is there (a replay that runs to its end replays that recording's
\* payloads), and runScenario otherwise; never both.
C19_ReplayOrScenario ==
    /\ Len(ran) <= 1
    /\ RunCalled => Len(ran) = 1
    /\ RecordingFound =>
           /\ \A i \in 1..Len(ran) : ran[i] = "runReplay"
           /\ cfg.replayFilePath = RecordingPath
           /\ (ReplayDone /\ ReplaySendsOK)
                 => ReplayedPayloads = DataOf(RecordingAt(RecordingPath))
    /\ ~RecordingFound =>
           /\ \A i \in 1..Len(ran) : ran[i] = "runScenario"
           /\ \A i \in 1..Len(wire) : wire[i].by # "runReplay"

\* The request named "s1" while only "s1.ndjson" was there (and a scenario
\* as well): the trigger started runReplay, which replayed that recording.
C19_Witness ==
    /\ cfg.replaySessionName = "s1"
    /\ cfg.files = {"s1.ndjson"}
    /\ cfg.scenarioName = "A"
    /\ ran = <<"runReplay">>
    /\ ReplayDone
    /\ ReplayedPayloads = <<"p2", "p1">>

\* ---- which scenario

\* The configured scenarios whose name is the scenario parameter.
NamedScenarios ==
    { i \in 1..Len(cfg.Scenarios) : cfg.Scenarios[i].Name = cfg.scenarioName }

\* The session runs scenario sc: it is the one selected, and its events are
\* what runScenario executes.
RunsScenario(sc) == cfg.selected = sc /\ cfg.selectedScenario = sc.Events

\* C20, as stated: a session that runs a scenario runs the configured
\* scenario whose name is the scenario parameter; and it runs the first
\* configured scenario when the parameter is absent, when it matches no
\* scenario, or when a requested recording was not found.
C20_AsStated ==
    (ran = <<"runScenario">>) =>
        /\ \A i \in NamedScenarios : RunsScenario(cfg.Scenarios[i])
        /\ (\/ cfg.scenarioName = ""
            \/ NamedScenarios = {}
            \/ (cfg.replaySessionName # "" /\ ~RecordingFound))
              => RunsScenario(cfg.Scenarios[1])

\* C20, amended: a session that runs a scenario runs the configured
\* scenario whose name is the scenario parameter, also when a requested
\* recording was not found; it runs the first configured scenario when the
\* parameter is absent or matches no scenario.
C20_ScenarioByName ==
    (ran = <<"runScenario">>) =>
        /\ \A i \in NamedScenarios : RunsScenario(cfg.Scenarios[i])
        /\ (cfg.scenarioName = "" \/ NamedScenarios = {})
              => RunsScenario(cfg.Scenarios[1])

\* A request for the recording "s2", which is not there, and for scenario
\* "B", the second of two: the session ran scenario B to its end.
C20_Witness ==
    /\ cfg.replaySessionName = "s2"
    /\ cfg.scenarioName = "B"
    /\ cfg.Scenarios = <<ScenarioA, ScenarioB>>
    /\ ran = <<"runScenario">>
    /\ RunsScenario(ScenarioB)
    /\ bpc = "done"
    /\ \E i \in 1..Len(wire) : wire[i].by = "streamMessageResponse" /\ wire[i].ok

\* ---- the response delay

\* C21, as stated: once the run function has been called, the goroutine has
\* slept the configured response delay before a scenario run, and has not
\* slept before a replay run, whichever kind of frame was the trigger.
C21_AsStated ==
    RunCalled =>
        EntriesBy("goroutine") =
            IF ~cfg.isReplay /\ cfg.Mock.ResponseDelaySeconds > 0
            THEN <<SleepEntry(cfg.Mock.ResponseDelaySeconds * 1000, 0, "goroutine")>>
            ELSE <<>>

\* The lines of file p that were written through recorder r.
LinesThrough(r, p) == SelectSeq(disk[p], LAMBDA l : RecOf(l.by) = r)

\* C22, as stated: every record in a recording file holds in its data field
\* the payload that was passed to RecordMessage, byte for byte.
C22_AsStated ==
    \A p \in DOMAIN disk :
        \A i \in 1..Len(disk[p]) : disk[p][i].data = disk[p][i].msg

\* C22, the rest of it: only valid JSON is ever recorded, and one call
\* appends at most one record.
C22_OnlyValidJSON ==
    \A p \in DOMAIN disk :
        \A i \in 1..Len(disk[p]) : Valid(disk[p][i].msg)

\* C23: the records written through one Recorder are whole, each the line
\* of one call, and their timestamps never decrease down the file, however
\* the calls interleave.
C23_WholeRecordsInOrder ==
    \A r \in Recorders : \A p \in DOMAIN disk :
        LET ls == LinesThrough(r, p)
        IN  /\ \A i \in 1..Len(ls) :
                 ls[i] = RecordLine(ls[i].timestamp, ls[i].msg, ls[i].by)
            /\ \A i \in 1..Len(ls) : \A j \in i..Len(ls) :
                 ls[i].timestamp <= ls[j].timestamp

\* Both goroutines are in RecordMessage on one Recorder: one has written
\* its line and still holds the lock, the other waits for it, and the clock
\* has moved on since the line's timestamp; an earlier line is in the file.
C23_Witness ==
    /\ RecOf("c2u") = RecOf("u2c")
    /\ rpc["c2u"] = "unlock"
    /\ rpc["u2c"] = "lock"
    /\ Valid(held["u2c"].msg)
    /\ \E p \in DOMAIN disk :
         /\ Len(disk[p]) = 2
         /\ disk[p][1].by = "u2c"
         /\ disk[p][2].by = "c2u"
         /\ disk[p][1].timestamp < disk[p][2].timestamp
         /\ disk[p][2].timestamp < clock

\* C24, as stated: no recording file is appended to through two different
\* recorders.
C24_AsStated ==
    \A p \in DOMAIN disk :
        \A i, j \in 1..Len(disk[p]) :
            RecOf(disk[p][i].by) = RecOf(disk[p][j].by)

\* ---- relay mode

\* The frames loop d has read so far, and its writes to the other side.
FramesRead(d) ==
    SubSeq(cfg.input[Source(d)], 1,
           Len(cfg.input[Source(d)]) - Len(inq[Source(d)]))
WritesBy(d) == SelectSeq(out[Target(d)], LAMBDA e : e.by = d)
InHand(d) == IF held[d] = NoMsg THEN 0 ELSE 1

\* The session got as far as the recorders: the key is set, the dial worked.
Connected == cfg.apiKey /\ cfg.dialOK
PastRecorders == ppc \in {"start", "wait", "return", "returned"}

\* The recorder of direction d was asked for and could not be opened.
OpenFailed(d) ==
    /\ IF d = "c2u" THEN cfg.LogInbound ELSE cfg.LogOutbound
    /\ ~cfg.opens[RecOf(d)[2]]

\* C25: a recorder that cannot be opened stops nothing: both loops are
\* started, every frame a loop has read is handed to the other side, and the
\* only difference is that nothing is recorded for that direction.
C25_RecorderFailureNotFatal ==
    \A d \in Dirs :
        (Connected /\ OpenFailed(d) /\ PastRecorders) =>
            /\ rec[RecOf(d)].nil
            /\ ppc # "start" => \A e \in Dirs : lpc[e] # "off"
            /\ Len(WritesBy(d)) = Len(FramesRead(d)) - InHand(d)
            /\ \A p \in DOMAIN disk :
                 \A i \in 1..Len(disk[p]) : disk[p][i].by # d

\* The inbound recorder could not be opened; the session has still
\* forwarded two client frames, a JSON text among them, and has recorded
\* the upstream's frame with the outbound recorder.
C25_Witness ==
    /\ Connected /\ OpenFailed("c2u") /\ ~OpenFailed("u2c")
    /\ Len(WritesBy("c2u")) = 2
    /\ \A i \in 1..2 : WritesBy("c2u")[i].ok
    /\ \E i \in 1..2 : WritesBy("c2u")[i].frame = RelayFrame("text", SpacedJSON)
    /\ \E p \in DOMAIN disk : Len(disk[p]) = 1 /\ disk[p][1].by = "u2c"
    /\ ppc = "returned"

\* C26: what a loop has written to the other side is, frame for frame, what
\* it has read, type and payload and order kept; every frame read is written
\* but the one in hand; a write fails at most once, the loop's last; and
\* while a loop runs, nothing but the loops writes to either connection.
C26_ForwardsUnchanged ==
    /\ \A d \in Dirs :
         /\ Len(WritesBy(d)) = Len(FramesRead(d)) - InHand(d)
         /\ \A i \in 1..Len(WritesBy(d)) :
              /\ WritesBy(d)[i].frame = FramesRead(d)[i]
              /\ ~WritesBy(d)[i].ok => i = Len(WritesBy(d)) /\ lpc[d] = "done"
         /\ lpc[d] # "off" => out[Target(d)] = WritesBy(d)
    /\ \A s \in Sides : \A i \in 1..Len(out[s]) :
         out[s][i].by = "handler" => \A d \in Dirs : lpc[d] = "off"

\* Both directions have forwarded: two client frames of different types
\* reached the upstream in order, one upstream frame reached the client.
C26_Witness ==
    /\ Len(WritesBy("c2u")) = 2
    /\ WritesBy("c2u")[1].frame = RelayFrame("binary", CompactJSON)
    /\ WritesBy("c2u")[2].frame = RelayFrame("text", Malformed)
    /\ WritesBy("c2u")[1].ok /\ WritesBy("c2u")[2].ok
    /\ Len(WritesBy("u2c")) = 1
    /\ WritesBy("u2c")[1].frame = RelayFrame("text", HtmlJSON)
    /\ WritesBy("u2c")[1].ok

Fatal == ~cfg.apiKey \/ ~cfg.dialOK

FatalErrorFrame ==
    IF ~cfg.apiKey THEN ErrorFrame("OPENAI_API_KEY not set on server")
    ELSE ErrorFrame("Failed to connect to OpenAI")

\* C28: in a session without a key or whose dial fails, no loop and no
\* recorder is ever started, nothing is written upstream, the dial is tried
\* at most once (not at all without a key); and when the handler has
\* returned, one error frame and nothing else was written to the client, and
\* the client's connection is closed.
C28_FatalSession ==
    Fatal =>
        /\ \A d \in Dirs : lpc[d] = "off"
        /\ \A r \in Recorders : rec[r].nil
        /\ disk = <<>>
        /\ out["openai"] = <<>>
        /\ dials <= (IF cfg.apiKey THEN 1 ELSE 0)
        /\ Len(out["client"]) <= 1
        /\ ppc \in {"return", "returned"} =>
             /\ Len(out["client"]) = 1
             /\ out["client"][1].frame = FatalErrorFrame
             /\ out["client"][1].by = "handler"
             /\ dials = (IF cfg.apiKey THEN 1 ELSE 0)
        /\ ppc = "returned" => conn["client"].closed

\* The dial has failed: the client got the error frame, and the handler has
\* returned with the client's connection closed, a frame of the client unread.
C28_Witness ==
    /\ cfg.apiKey /\ ~cfg.dialOK
    /\ ppc = "returned"
    /\ dials = 1
    /\ out["client"] = <<[frame |-> ErrorFrame("Failed to connect to OpenAI"),
                          ok |-> TRUE, by |-> "handler"]>>
    /\ conn["client"].closed
    /\ inq["client"] # <<>>

\* ---- the configuration

\* The configuration was accepted: the process went on to serve.
Accepted == hpc \notin {"load", "fatal"}

\* An event runScenario's switch has a case for, and sendFunctionCall a
\* named function.
KnownEvent(e) ==
    /\ e.Type \in {"message", "function_call", "user_transcription"}
    /\ e.Type = "function_call" =>
         ~e.FunctionCall.nil /\ e.FunctionCall.Name # ""

\* A configuration with one of the four faults.
Faulty(scenarios) ==
    \/ \E i \in 1..Len(scenarios) :
         \/ scenarios[i].Name = ""
         \/ \E j \in 1..Len(scenarios) :
              i # j /\ scenarios[i].Name = scenarios[j].Name
         \/ \E k \in 1..Len(scenarios[i].Events) :
              ~KnownEvent(scenarios[i].Events[k])

\* C29: in a process whose configuration validateConfig accepted, every
\* event runScenario comes to is a message, a function_call or a
\* user_transcription, and every function_call has a function with a
\* non-empty name; and a configuration with an unknown event type, a
\* function_call without a named function, an empty scenario name or a
\* duplicate scenario name is never accepted.
C29_ValidatedConfig ==
    /\ (Accepted /\ bpc = "sLoop" /\ evIdx <= Len(cfg.selectedScenario)) =>
           KnownEvent(CurrentEvent)
    /\ bpc \in {"fOpen", "fDelta", "fClose"} =>
           ~CurrentEvent.FunctionCall.nil /\ CurrentEvent.FunctionCall.Name # ""
    /\ Faulty(cfg.Scenarios) => ~Accepted

\* A configuration of two scenarios was accepted, the second was asked for,
\* and sendFunctionCall is about to send its function_call.
C29_Witness ==
    /\ Accepted
    /\ Len(cfg.Scenarios) = 2
    /\ cfg.scenarioName = "B"
    /\ cfg.Scenarios[2].Name = "B"
    /\ bpc = "fOpen"
    /\ CurrentEvent.FunctionCall.Name = "f"

\* ---- event ids

\* The entries of the history that are frames written to the client.
SentAt == { i \in 1..Len(wire) : wire[i].op = "send" }
BuiltAt == { i \in SentAt : wire[i].frame.type # "<recorded>" }

DecodeString(s) ==
    LET pads == Cardinality({ j \in 1..Len(s) : s[j] = 64 })
        val(j) == IF s[j] = 64 THEN 0 ELSE s[j]
        v(g) == val(4 * g - 3) * 262144 + val(4 * g - 2) * 4096
                + val(4 * g - 1) * 64 + val(4 * g)
    IN  [i \in 1..(3 * (Len(s) \div 4) - pads) |->
            LET g == (i + 2) \div 3
                k == i - 3 * (g - 1)
            IN  CASE k = 1 -> v(g) \div 65536
                  [] k = 2 -> (v(g) \div 256) % 256
                  [] OTHER -> v(g) % 256]

\* The places in the history of the delivered frames of a type.
PlacesOf(t) ==
    { i \in 1..Len(wire) : wire[i].op = "send" /\ wire[i].ok /\ wire[i].frame.type = t }

\* The deltas of a type, in the order sent.
DeltasOf(t) ==
    LET sent == DeliveredOfType(t)
    IN  [i \in 1..Len(sent) |-> sent[i].frame.delta]

\* Every place of a is before every place of b.
Before(a, b) == \A i \in PlacesOf(a) : \A j \in PlacesOf(b) : i < j

\* C31: when the scenario "default" has run, the client has got exactly one
\* response.created, response.output_item.added and
\* response.content_part.added, then two audio deltas of 4096 bytes each and
\* the transcript deltas "hi " and "there ", then one content_part.done,
\* output_item.done and response.done, the last frame of all.
C31_EndToEnd ==
    bpc = "done" =>
        /\ \A t \in {"response.created", "response.output_item.added",
                     "response.content_part.added", "response.content_part.done",
                     "response.output_item.done", "response.done"} :
               Cardinality(PlacesOf(t)) = 1
        /\ Before("response.created", "response.output_item.added")
        /\ Before("response.output_item.added", "response.content_part.added")
        /\ \A t \in {"response.audio.delta", "response.audio_transcript.delta"} :
               /\ Before("response.content_part.added", t)
               /\ Before(t, "response.content_part.done")
        /\ Before("response.content_part.done", "response.output_item.done")
        /\ Before("response.output_item.done", "response.done")
        /\ PlacesOf("response.done") = {Len(wire)}
        /\ Len(DeltasOf("response.audio.delta")) = 2
        /\ \A i \in 1..2 :
               Len(DecodeString(DeltasOf("response.audio.delta")[i]))
                   = defaultAudioChunkSizeBytes
        /\ DeltasOf("response.audio_transcript.delta")
               = << <<"h", "i", " ">>, <<"t", "h", "e", "r", "e", " ">> >>
        /\ Concat(DeltasOf("response.audio_transcript.delta"))
               = <<"h", "i", " ", "t", "h", "e", "r", "e", " ">>

\* The scenario has run after a response.create from the client, which got
\* the first transcript delta before the first audio delta.
C31_Witness ==
    /\ bpc = "done"
    /\ lastRead = TextFrame("response.create")
    /\ \E i \in PlacesOf("response.audio_transcript.delta") :
         \A j \in PlacesOf("response.audio.delta") : i < j
    /\ wire[Len(wire)].frame.type = "response.done"

\* The bytes a client decodes from the audio deltas it got, delta by delta.
DecodedAudio ==
    LET d == DeltasOf("response.audio.delta")
    IN  [i \in 1..Len(d) |-> DecodeString(d[i])]

\* C32: the audio deltas carry the bytes behind the header in order, in
\* chunks of the configured size: no delta is empty, every delta but the last
\* decodes to AudioChunkSizeBytes bytes, what was sent so far is the start of
\* the data, and once the stream has ended (response.output_audio.done) the
\* deltas together are the data, in ceil(dataBytes / chunkSize) deltas; a
\* source with no data gives no delta.
C32_AudioChunks ==
    LET data == WavData(cfg.wav)
        size == cfg.Mock.AudioChunkSizeBytes
        got  == DecodedAudio
        all  == Concat(got)
    IN  /\ \A i \in 1..Len(got) : Len(got[i]) > 0
        /\ \A i \in 1..(Len(got) - 1) : Len(got[i]) = size
        /\ Len(all) <= Len(data)
        /\ all = SubSeq(data, 1, Len(all))
        /\ PlacesOf("response.output_audio.done") # {} =>
               /\ all = data
               /\ Len(got) = (Len(data) + size - 1) \div size
               /\ (data = <<>> => got = <<>>)

\* Three bytes of data in chunks of two have been streamed to the end: one
\* full chunk and a last one of one byte.
C32_Witness ==
    /\ PlacesOf("response.output_audio.done") # {}
    /\ Len(WavData(cfg.wav)) = 3
    /\ cfg.Mock.AudioChunkSizeBytes = 2
    /\ Len(DecodedAudio) = 2
    /\ Len(DecodedAudio[2]) = 1

\* os.Open fails, or io.ReadFull of the header does.
AudioUnreadable == ~cfg.wav.exists \/ cfg.wav.size < wavHeaderBytes

\* C34: with AudioWavPath set and a file that cannot be opened, or is
\* shorter than its header, no audio delta is ever sent, and when the
\* scenario has run the transcript deltas of every word were sent before
\* response.content_part.done, the closing frames content_part.done,
\* output_item.done and response.done were sent once each in that order, and
\* the frames of the next event followed response.done.
C34_AudioDegrades ==
    (cfg.Mock.AudioWavPath # "" /\ AudioUnreadable) =>
        /\ \A i \in SentAt : wire[i].frame.type # "response.audio.delta"
        /\ bpc = "done" =>
            /\ DeltasOf("response.audio_transcript.delta")
                   = [i \in 1..Len(Fields(cfg.selectedScenario[1].Text)) |->
                         Fields(cfg.selectedScenario[1].Text)[i] \o <<" ">>]
            /\ Before("response.audio_transcript.delta", "response.content_part.done")
            /\ \A t \in {"response.content_part.done", "response.output_item.done",
                         "response.done"} : Cardinality(PlacesOf(t)) = 1
            /\ Before("response.content_part.done", "response.output_item.done")
            /\ Before("response.output_item.done", "response.done")
            /\ PlacesOf("input_audio_buffer.committed") # {}
            /\ Before("response.done", "input_audio_buffer.committed")
            /\ PlacesOf("conversation.item.input_audio_transcription.completed") # {}

\* The scenario has run with a file too short for a header, the two words of
\* the message were sent, and the next event's frames came last.
C34_Witness ==
    /\ bpc = "done"
    /\ cfg.wav.exists
    /\ AudioUnreadable
    /\ Len(DeltasOf("response.audio_transcript.delta")) = 2
    /\ wire[Len(wire)].frame.type = "conversation.item.input_audio_transcription.completed"

\* The places in a text where a word starts: a character that is not
\* whitespace, at the start or after whitespace.
WordStarts(text) ==
    { i \in 1..Len(text) :
        ~IsSpace(text[i]) /\ (i = 1 \/ IsSpace(text[i - 1])) }

\* C33: the transcript deltas are the whitespace-separated words of the
\* scripted text in order, one delta per word, each the word and one space:
\* what was sent so far is the start of that list, and all of it when the
\* scenario has run; the words hold no whitespace, are not empty, are as many
\* as word starts in the text, and together are the text without its
\* whitespace.  A text without a word gives no transcript delta and no
\* response.output_audio_transcript.done.
C33_OneDeltaPerWord ==
    LET words == Fields(ScriptedText)
        want  == [i \in 1..Len(words) |-> words[i] \o <<" ">>]
        got   == DeltasOf("response.audio_transcript.delta")
    IN  /\ Len(words) = Cardinality(WordStarts(ScriptedText))
        /\ \A i \in 1..Len(words) :
               words[i] # <<>> /\ \A k \in 1..Len(words[i]) : ~IsSpace(words[i][k])
        /\ Concat(words) = SelectSeq(ScriptedText, LAMBDA c : ~IsSpace(c))
        /\ Len(got) <= Len(want)
        /\ got = SubSeq(want, 1, Len(got))
        /\ bpc = "done" => got = want
        /\ words = <<>> =>
               /\ got = <<>>
               /\ PlacesOf("response.output_audio_transcript.done") = {}

\* The text "a<tab> b" was streamed as "a " and "b ", and the done marker
\* was sent.
C33_Witness ==
    /\ bpc = "done"
    /\ ScriptedText = <<"a", "\t", " ", "b">>
    /\ DeltasOf("response.audio_transcript.delta") = << <<"a", " ">>, <<"b", " ">> >>
    /\ PlacesOf("response.output_audio_transcript.done") # {}

\* A text of whitespace alone was scripted and the scenario has run.
C33_WhitespaceOnly ==
    /\ bpc = "done"
    /\ ScriptedText = <<" ", "\t">>

\* The frames runReplay attempted are the payloads of records of the file,
\* in the order of the file.
ReplaySendsOnlyRecords ==
    LET sent == SelectSeq(wire, LAMBDA e : e.by = "runReplay" /\ e.op = "send")
        recs == SelectSeq(SubSeq(File, 1, IF lineIdx > Len(File) THEN Len(File) ELSE lineIdx),
                          LAMBDA l : WellFormed(l) /\ ~l.long)
    IN  /\ Len(sent) <= Len(recs)
        /\ \A i \in 1..Len(sent) :
               sent[i].frame = RawFrame(recs[i].data)

\* C35, as stated: runReplay on a recording it opened, with every send
\* delivered, returns only at the end of the file, having read every line,
\* and has sent nothing but the payloads of the file's records.
C35_AsStated ==
    /\ ReplaySendsOnlyRecords
    /\ (ReplayDone /\ ReplaySendsOK) => lineIdx = Len(File) + 1

\* The lines of the file never come twice: the scanner's position only
\* grows, by one line at a time.
C35_NoLoopBack ==
    [][lineIdx' = lineIdx \/ lineIdx' = lineIdx + 1 \/ ENABLED ReplayOpen]_vars

\* runReplay, once called, returns.
C35_Terminates == (bpc = "run" /\ cfg.isReplay) ~> (bpc = "done")

\* The places of the sends, and of the failed sends, of function by for
\* event e.
SendsBy(by, e) ==
    { i \in SentAt : wire[i].by = by /\ wire[i].ev = e }
FailedBy(by, e) == { i \in SendsBy(by, e) : ~wire[i].ok }

\* The functions that send the frames of an event.
EventFunctions ==
    {"streamMessageResponse", "streamAudio", "streamTranscript",
     "sendFunctionCall", "sendUserTranscription"}

\* The last frame an event's handler sends when every send succeeds.
ClosingFrameType(e) ==
    IF e.Type = "user_transcription"
    THEN "conversation.item.input_audio_transcription.completed"
    ELSE "response.done"

\* Each function returns after its first failed send: for an event it has at
\* most one failed send, and nothing of it for that event follows.
ReturnsAfterFailedSend ==
    \A by \in EventFunctions : \A e \in 1..Len(cfg.selectedScenario) :
        \A i \in FailedBy(by, e) :
            \A j \in 1..Len(wire) :
                (wire[j].by = by /\ wire[j].ev = e) => j <= i

\* With every send delivered, runScenario has ended on the closing frame of
\* the last event.
EndsOnClosingFrame ==
    (/\ bpc = "done" /\ ~cfg.isReplay /\ started = 1
     /\ cfg.selectedScenario # <<>>
     /\ \A i \in SentAt : wire[i].ok)
        => LET n == Len(cfg.selectedScenario)
               last == wire[Len(wire)]
           IN  /\ last.op = "send"
               /\ last.ev = n
               /\ last.frame.type = ClosingFrameType(cfg.selectedScenario[n])

\* C36: a runScenario that was called returns, whether its sends are
\* delivered or fail; with every send delivered its last frame is the
\* closing frame of the last event; and each event handler and each of the
\* two streaming loops returns after its first failed send.
C36_ScenarioTerminates ==
    /\ (bpc = "run" /\ ~cfg.isReplay) ~> (bpc = "done")
    /\ []EndsOnClosingFrame
    /\ []ReturnsAfterFailedSend

\* A message event has ended on a closed connection: the audio loop, the
\* transcript loop and streamMessageResponse each had one failed send.
C36_Witness ==
    /\ bpc = "done"
    /\ started = 1
    /\ \A by \in {"streamMessageResponse", "streamAudio", "streamTranscript"} :
           Cardinality(FailedBy(by, 1)) = 1

\* The handler has left its read loop, or returned before it.
SessionClosed == hpc \in {"exit", "returned"}

\* C37: a session that is closed without a qualifying frame read has started
\* no goroutine and neither runScenario nor runReplay, then or later, and
\* all it ever sent are the welcome frames: session.created and
\* conversation.created by the handler, once each and in that order when
\* the read loop was reached.
C37_ClosedBeforeTrigger ==
    (SessionClosed /\ nQual = 0) =>
        /\ spawned = 0
        /\ started = 0
        /\ ran = <<>>
        /\ bpc = "idle"
        /\ \A i \in SentAt :
               /\ wire[i].by = "handleMockWebSocket"
               /\ wire[i].frame \in {SessionCreated, ConversationCreated}
        /\ (\A i \in SentAt : wire[i].ok) =>
               [i \in 1..Len(wire) |-> wire[i].frame]
                   = <<SessionCreated, ConversationCreated>>
        /\ ~ENABLED GoroutineStart
        /\ ~ENABLED ReplayOpen
        /\ ~ENABLED ScenarioStart

\* The handler has returned after reading a frame that does not qualify and
\* then a read error; the client got the two welcome frames.
C37_Witness ==
    /\ hpc = "returned"
    /\ nQual = 0
    /\ lastRead # NoFrame
    /\ Delivered(wire) = <<SessionCreated, ConversationCreated>>

\* runReplay has parsed a record before the line it is at.
HasBaseline == cfg.isReplay /\ started = 1 /\ ~firstEvent

\* C38: in runReplay, once a record was parsed, lastTimestamp is the
\* timestamp of the last record parsed; passing a blank or unparsable line
\* adds no sleep and leaves lastTimestamp as it is; and parsing a record
\* sleeps its timestamp minus lastTimestamp when that is positive and not at
\* all when its timestamp is lower or the same, and makes its timestamp the
\* new lastTimestamp in both cases.
C38_DelayBaseline ==
    [][/\ HasBaseline' => /\ ParsedSoFar' # <<>>
                          /\ lastTimestamp' = ParsedSoFar'[Len(ParsedSoFar')].ts
       /\ (bpc = "rScan" /\ lineIdx' = lineIdx + 1) =>
              /\ File[lineIdx].kind \in {"blank", "corrupt"}
              /\ wire' = wire
              /\ lastTimestamp' = lastTimestamp
              /\ firstEvent' = firstEvent
       /\ (bpc = "rScan" /\ bpc' = "rSend" /\ HasBaseline) =>
              LET ts == File[lineIdx].ts
              IN  /\ lastTimestamp' = ts
                  /\ IF ts > lastTimestamp
                     THEN wire' = Append(wire, SleepEntry(ts - lastTimestamp, 0,
                                                          "runReplay"))
                     ELSE wire' = wire
      ]_vars

\* A record at T+50, an unparsable line and a record at T were replayed:
\* both payloads were sent, nothing was slept, and the baseline is T.
C38_Witness ==
    /\ ReplayDone
    /\ Len(File) = 3
    /\ File[1].kind = "event" /\ File[1].ts = RecT + 50
    /\ File[2] = CorruptLine
    /\ File[3].kind = "event" /\ File[3].ts = RecT
    /\ Len(ReplayedPayloads) = 2
    /\ lastTimestamp = RecT
    /\ \A i \in 1..Len(wire) : wire[i].op # "sleep"

\* The recorder was opened and has been closed.
RecorderClosed(r) == rec[r] = ClosedRecorder

\* C39: when the handler has returned from a session whose upstream was
\* dialled, the client connection and the upstream connection are closed,
\* each recorder that was asked for and could be opened was opened and is
\* closed, and no recorder is left open; and once a recorder is closed
\* nothing more is written to any file.
C39_AllClosedOnReturn ==
    /\ [](  (ppc = "returned" /\ Connected) =>
              /\ \A s \in Sides : conn[s].closed
              /\ \A d \in Dirs :
                    LET asked == IF d = "c2u" THEN cfg.LogInbound ELSE cfg.LogOutbound
                    IN  IF asked /\ ~OpenFailed(d)
                        THEN RecorderClosed(RecOf(d))
                        ELSE rec[RecOf(d)].nil
              /\ \A d \in Dirs : lpc[d] = "done" /\ rpc[d] = "idle")
    /\ [][(\E r \in Recorders : RecorderClosed(r)) => disk' = disk]_vars

\* The handler has returned after the client went away; the inbound
\* recorder had written a line and is closed, as are both connections.
C39_Witness ==
    /\ ppc = "returned"
    /\ Connected
    /\ conn["client"].gone
    /\ RecorderClosed(inboundRecorder)
    /\ \E p \in DOMAIN disk : disk[p] # <<>>
    /\ \A s \in Sides : conn[s].closed

\* The request has been resolved: the handler is past its first part.
Resolved == hpc \notin {"load", "fatal", "select"}

\* C40: with no recording resolved and no scenario in the configuration the
\* handler returns before the upgrade: nothing was sent, no frame was read,
\* no goroutine and no run was started, and nothing of the session can
\* happen any more.  A configuration without scenarios is served only when
\* its mode is not "mock", and a session is refused in no other case.
C40_NoUpgradeWithoutRun ==
    /\ (Resolved /\ ~cfg.isReplay /\ Len(cfg.Scenarios) = 0) =>
           /\ hpc = "notUpgraded"
           /\ wire = <<>>
           /\ lastRead = NoFrame
           /\ spawned = 0
           /\ started = 0
           /\ bpc = "idle"
           /\ ~closed
           /\ ~ENABLED SendSessionCreated
           /\ ~ENABLED (\E f \in InFrames : ReadFrame(f))
           /\ ~ENABLED ReadError
           /\ ~ENABLED HandlerReturn
           /\ ~ENABLED GoroutineStart
           /\ ~ENABLED ReplayOpen
           /\ ~ENABLED ScenarioStart
    /\ (Resolved /\ Len(cfg.Scenarios) = 0) => cfg.Mode # "mock"
    /\ hpc = "notUpgraded" => ~cfg.isReplay /\ Len(cfg.Scenarios) = 0

\* A request for scenario A and recording s2 came to a server in no named
\* mode, without scenarios and without that recording: the handler returned.
C40_Witness ==
    /\ hpc = "notUpgraded"
    /\ cfg.Mode = ""
    /\ cfg.Scenarios = <<>>
    /\ cfg.scenarioName = "A"
    /\ cfg.replaySessionName = "s2"
    /\ wire = <<>>

====
